---- MODULE Spec2Model ----
(***************************************************************************)
(* Model of the core of simple-docker-monitor:                             *)
(*   - the interval job scheduler (modules/scheduler/scheduler.js),        *)
(*   - the update checker with its notification history                    *)
(*     (modules/update-checker/update-checker.js).                         *)
(* JavaScript runs every handler to its first await without interruption,  *)
(* so one action is the synchronous part of one handler or one             *)
(* continuation after an await.                                            *)
(***************************************************************************)
EXTENDS Integers, Sequences, FiniteSets, Bags, TLC

VARIABLES
    jobs,            \* scheduler: Map name -> job object (NoJob: no entry)
    inflight,        \* per entry of jobs: calls of fn() awaited, by wrapper
    orphans,         \* job objects that left jobs and are still referenced
    isShuttingDown,  \* scheduler: the shutdown flag
    sd,              \* shutdown() calls: position and time waited so far
    last,            \* the handler that ran last: which, on what, and what its caller saw
    config,               \* update checker: config.updateChecker
    lastNotifiedDigests,  \* update checker: Map container id -> digest last notified
    remote,               \* registries: the digest each tracked reference resolves to
    calls,                \* calls of checkForUpdates / checkForNewUpdates in progress
    prevObs,         \* observed: the digests the last finished checkForNewUpdates saw
    reported,        \* observed: the digest of the record last returned per container
    era,             \* observed: constructed, cleared, or used by a checkForNewUpdates since
    told,            \* observed: per container and digest, the calls that returned it since it was pushed
    input,           \* image parser: the argument of a call of parseImageReference
    result,          \* image parser: what the call returned or threw
    again,           \* image parser: the same for parseImageReference(result.toString())
    client,          \* registry client: the imageRef and ghcrToken createRegistryClient closed over
    requests,        \* registry client: the requests handed to fetch, in order
    responses,       \* registry client: the responses fetch resolved with, in order
    digestCall,      \* registry client: the call of getRemoteDigest and its promise
    jobsP,           \* scheduler with the promise guard: Map name -> job object
    inflightP,       \* per entry of jobsP: the wrapper awaiting fn(), and who awaits its promise
    orphansP,        \* objects that left jobsP with a call of fn() awaited
    isShuttingDownP, \* scheduler with the promise guard: the shutdown flag
    sdP,             \* its shutdown() calls: position, promises left, rejection seen
    lastP,           \* the handler of it that ran last
    snapshot,        \* update checker: the Map a caller got from getNotificationHistory()
    providers,       \* notification manager: the registered providers, in order
    checkJob,        \* the check-updates job: where its invocation is, what it handed to notify
    handed           \* observed: per container and digest, the times it was handed to notify since the last push

schedVars == <<jobs, inflight, orphans, isShuttingDown, sd, last>>

ucVars == <<config, lastNotifiedDigests, remote, calls, prevObs, reported, era, told>>

parseVars == <<input, result, again>>

rcVars == <<client, requests, responses, digestCall>>

guardVars == <<jobsP, inflightP, orphansP, isShuttingDownP, sdP, lastP>>

callerVars == <<snapshot>>

notifyVars == <<providers, checkJob, handed>>

vars == <<jobs, inflight, orphans, isShuttingDown, sd, last,
          config, lastNotifiedDigests, remote, calls, prevObs, reported, era, told,
          input, result, again, client, requests, responses, digestCall,
          jobsP, inflightP, orphansP, isShuttingDownP, sdP, lastP, snapshot,
          providers, checkJob, handed>>

\* what the handlers of one component leave alone
offSched == <<ucVars, parseVars, rcVars, guardVars, callerVars, notifyVars>>
offUC == <<schedVars, parseVars, rcVars, guardVars, callerVars, notifyVars>>
offParse == <<schedVars, ucVars, rcVars, guardVars, callerVars, notifyVars>>
offRC == <<schedVars, ucVars, parseVars, guardVars, callerVars, notifyVars>>
offP == <<schedVars, ucVars, parseVars, rcVars, callerVars, notifyVars>>
offCaller == <<schedVars, parseVars, rcVars, guardVars, notifyVars>>
offNotify == <<schedVars, parseVars, rcVars, guardVars, callerVars>>
offBoth == <<ucVars, parseVars, rcVars, callerVars, notifyVars>>

(***************************************************************************)
(* Bounds of the model.                                                    *)
(***************************************************************************)
MaxObjs == 2        \* job objects alive at the same time
MaxRuns == 2        \* successful runs counted per job object

(***************************************************************************)
(* Program constants.                                                      *)
(***************************************************************************)
maxWait == 5000     \* const maxWait = 5000: the grace period of shutdown(), ms
PollMs == 100       \* setTimeout(r, 100): shutdown() polls every 100 ms

Names == {"a", "b"}
\* the calls of shutdown() that can be in progress: two termination handlers
SdCalls == {"s1", "s2"}
\* one caller of shutdown()
OneCaller == {"s1"}
\* the (fn, intervalMs) arguments schedule() is called with
Actions == {[fn |-> "f", intervalMs |-> 1000], [fn |-> "g", intervalMs |-> 2000]}
\* the callers' choice of them: job "a" is scheduled with either, job "b" with the first
ArgsFor(n) == IF n = "a" THEN Actions ELSE {[fn |-> "f", intervalMs |-> 1000]}
Errors == {"E1"}
NULL == "null"
\* jobs.get(name) of a name without entry
NoJob == [name |-> NULL]
Wrappers == {"runJob", "runNow"}
\* what a call of fn() does: it returns a promise that is still pending, or
\* it throws before it returns
Outcomes == {"pending"} \cup Errors
\* how an awaited promise settles
Settlements == {"ok"} \cup Errors
\* A timer callback runs when it is due or later.  The poll timer of
\* shutdown() runs on time (PollMs) or late by the whole grace period.
Delays == {PollMs, maxWait}
\* The poll timer always late: shutdown() then leaves its loop at the first poll.
LateDelays == {maxWait}
\* The poll timer late by half the grace period or by all of it.
CoarseDelays == {maxWait \div 2, maxWait}

\* The handler that ran last.  op: the handler; name: the job name it was
\* about; by: the wrapper that called fn() in it, or whose await it continued
\* ("none": fn() was not called); res: what its caller saw, a value returned,
\* an error thrown or a promise settled.
Last(op, name, by, res) == [op |-> op, name |-> name, by |-> by, res |-> res]

Void == "void"
\* the call throws e, or the promise it returned rejects with e
Rejected(e) == e

\* const job = {...}: the object literal of schedule()
NewJob(n, a) ==
    [name |-> n, fn |-> a.fn, intervalMs |-> a.intervalMs,
     intervalId |-> FALSE, isRunning |-> FALSE, lastRun |-> NULL,
     lastError |-> NULL, runCount |-> 0]

None == [runJob |-> 0, runNow |-> 0]

RegisteredNames == {n \in Names : jobs[n] # NoJob}

\* The objects alive: those in jobs, and those that left it but are still
\* referenced by a pending continuation or by a timer that was not cleared.
Alive == Cardinality(RegisteredNames) + BagCardinality(orphans)

(***************************************************************************)
(* A job object that left jobs.  Nothing reads its intervalMs, lastRun,    *)
(* lastError and runCount any more (callers of schedule() drop the object  *)
(* it returns), so only what its continuations and its timer read is kept. *)
(***************************************************************************)
\* the object leaves jobs and its awaited calls are abandoned with it
Orphan_Interrupted(job, f) ==
    [name |-> job.name, fn |-> job.fn, intervalId |-> job.intervalId,
     isRunning |-> FALSE, runJob |-> 0, runNow |-> 0]

Orphan(job, f) ==
    [name |-> job.name, fn |-> job.fn, intervalId |-> job.intervalId,
     isRunning |-> job.isRunning, runJob |-> f.runJob, runNow |-> f.runNow]

\* the orphan as a job object, its fields that nothing reads left blank
Unread(e) ==
    [name |-> e.name, fn |-> e.fn, intervalMs |-> 0, intervalId |-> e.intervalId,
     isRunning |-> e.isRunning, lastRun |-> NULL, lastError |-> NULL, runCount |-> 0]

Awaited(e) == [runJob |-> e.runJob, runNow |-> e.runNow]

Referenced(e) == e.intervalId \/ e.runJob + e.runNow > 0

Put(B, e) == IF Referenced(e) THEN B (+) SetToBag({e}) ELSE B

Take(B, e) == B (-) SetToBag({e})

\* the objects of the entries ns of jobs leave it
Orphaned(B, j, f, ns) ==
    LET RECURSIVE Go(_, _)
        Go(C, S) == IF S = {} THEN C
                    ELSE LET n == CHOOSE m \in S : TRUE
                         IN  Go(Put(C, Orphan(j[n], f[n])), S \ {n})
    IN  Go(B, ns)

SchedInit ==
    /\ jobs = [n \in Names |-> NoJob]
    /\ inflight = [n \in Names |-> None]
    /\ orphans = EmptyBag
    /\ isShuttingDown = FALSE
    /\ sd = [s \in SdCalls |-> [pc |-> "idle", waited |-> 0]]
    /\ last = Last("init", NULL, "none", Void)

(***************************************************************************)
(* runJob and runNow: the shared pieces.                                   *)
(***************************************************************************)
\* runJob without the in-flight test: if (isShuttingDown) return;
RunJobSkips_NoInFlightTest(shuttingDown, job) == shuttingDown

\* runJob without the shutdown test: if (job.isRunning) return;
RunJobSkips_NoShutdownTest(shuttingDown, job) == job.isRunning

\* one flag for the whole scheduler in the place of job.isRunning
RunJobSkips_AnyRunning(shuttingDown, job) ==
    shuttingDown \/ \E n \in Names : jobs[n] # NoJob /\ jobs[n].isRunning

\* if (isShuttingDown || job.isRunning) return;
RunJobSkips(shuttingDown, job) == shuttingDown \/ job.isRunning

\* runNow without its test of job.isRunning
RunNowBusy_Never(job) == FALSE

\* runNow refusing also once shutdown() was called
RunNowBusy_OrShuttingDown(job) == job.isRunning \/ isShuttingDown

\* if (job.isRunning) throw new Error(... is already running)
RunNowBusy(job) == job.isRunning

\* job.isRunning = true, then fn() is called
Started(job) == [job EXCEPT !.isRunning = TRUE]

\* await fn() resolved: lastRun, lastError = null, runCount++; finally isRunning = false
\* the try block without job.lastError = null
Succeeded_ErrorKept(job) ==
    [job EXCEPT !.lastRun = "date", !.runCount = @ + 1, !.isRunning = FALSE]

Succeeded(job) ==
    [job EXCEPT !.lastRun = "date", !.lastError = NULL,
                !.runCount = @ + 1, !.isRunning = FALSE]

\* the catch block without the finally block: the job stays marked as running
Failed_StillRunning(job, e) == [job EXCEPT !.lastError = e]

\* await fn() rejected or fn() threw: catch sets lastError; finally isRunning = false
Failed(job, e) == [job EXCEPT !.lastError = e, !.isRunning = FALSE]

\* The body of a wrapper (runJob, or runNow past its checks) on a job
\* object up to its await; f counts the awaited calls of its fn().
Invoke(job, f, by, out) ==
    IF out = "pending"
    THEN [job |-> Started(job), inflight |-> [f EXCEPT ![by] = @ + 1]]
    ELSE [job |-> Failed(Started(job), out), inflight |-> f]

\* the continuation of a wrapper after its await
Settled(job, out) == IF out = "ok" THEN Succeeded(job) ELSE Failed(job, out)

\* runNow with the catch block of runJob: the rejection is logged, not rethrown
Propagated_Swallowed(by, out) ==
    IF by = "runJob" \/ out # "ok" THEN Void ELSE "resolved"

\* runJob swallows the rejection (console.error), runNow rethrows it
Propagated(by, out) ==
    IF by = "runJob" THEN Void ELSE IF out = "ok" THEN "resolved" ELSE Rejected(out)

(***************************************************************************)
(* schedule(name, fn, intervalMs, {runImmediately})                        *)
(***************************************************************************)
\* schedule() without its test of jobs.has(name)
Has_Never(j, n) == FALSE

\* jobs.has(name)
Has(j, n) == j[n] # NoJob

Schedule(n, a, runImmediately, out) ==
    IF Has(jobs, n)
    THEN /\ out = "pending"
         /\ last' = Last("schedule", n, "none", "DuplicateJob")
         /\ UNCHANGED <<jobs, inflight, orphans, isShuttingDown, sd>>
    ELSE /\ Alive < MaxObjs
         /\ LET job == [NewJob(n, a) EXCEPT !.intervalId = TRUE]
            IN  IF runImmediately /\ ~RunJobSkips(isShuttingDown, job)
                THEN LET r == Invoke(job, None, "runJob", out)
                     IN  /\ jobs' = [jobs EXCEPT ![n] = r.job]
                         /\ inflight' = [inflight EXCEPT ![n] = r.inflight]
                         /\ last' = Last("schedule", n, "runJob", "job")
                ELSE /\ out = "pending"
                     /\ jobs' = [jobs EXCEPT ![n] = job]
                     /\ inflight' = [inflight EXCEPT ![n] = None]
                     /\ last' = Last("schedule", n, "none", "job")
         /\ UNCHANGED <<orphans, isShuttingDown, sd>>

(***************************************************************************)
(* One firing of the setInterval timer of a job object: runJob().          *)
(***************************************************************************)
Tick(n, out) ==
    /\ jobs[n] # NoJob /\ jobs[n].intervalId
    /\ IF RunJobSkips(isShuttingDown, jobs[n])
       THEN /\ out = "pending"
            /\ last' = Last("tick", n, "none", Void)
            /\ UNCHANGED <<jobs, inflight, orphans, isShuttingDown, sd>>
       ELSE /\ jobs[n].runCount < MaxRuns
            /\ LET r == Invoke(jobs[n], inflight[n], "runJob", out)
               IN  /\ jobs' = [jobs EXCEPT ![n] = r.job]
                   /\ inflight' = [inflight EXCEPT ![n] = r.inflight]
            /\ last' = Last("tick", n, "runJob", Void)
            /\ UNCHANGED <<orphans, isShuttingDown, sd>>

\* the timer of an object that left jobs with its timer still set
TickOrphan(e, out) ==
    /\ e \in BagToSet(orphans) /\ e.intervalId
    /\ IF RunJobSkips(isShuttingDown, e)
       THEN /\ out = "pending"
            /\ last' = Last("tickOrphan", e.name, "none", Void)
            /\ UNCHANGED <<jobs, inflight, orphans, isShuttingDown, sd>>
       ELSE /\ LET r == Invoke(Unread(e), Awaited(e), "runJob", out)
               IN  orphans' = Put(Take(orphans, e), Orphan(r.job, r.inflight))
            /\ last' = Last("tickOrphan", e.name, "runJob", Void)
            /\ UNCHANGED <<jobs, inflight, isShuttingDown, sd>>

(***************************************************************************)
(* cancel(name)                                                            *)
(***************************************************************************)
\* cancel() without clearInterval: the timer of the object keeps firing
clearInterval_Not(job) == job

\* clearInterval(job.intervalId)
clearInterval(job) == [job EXCEPT !.intervalId = FALSE]

Cancel(n) ==
    /\ last' = Last("cancel", n, "none", Void)
    /\ IF jobs[n] = NoJob
       THEN UNCHANGED <<jobs, inflight, orphans, isShuttingDown, sd>>
       ELSE /\ orphans' = Put(orphans, Orphan(clearInterval(jobs[n]), inflight[n]))
            /\ jobs' = [jobs EXCEPT ![n] = NoJob]
            /\ inflight' = [inflight EXCEPT ![n] = None]
            /\ UNCHANGED <<isShuttingDown, sd>>

(***************************************************************************)
(* runNow(name): the synchronous part, up to await job.fn()                *)
(***************************************************************************)
RunNow(n, out) ==
    IF jobs[n] = NoJob
    THEN /\ out = "pending"
         /\ last' = Last("runNow", n, "none", "JobNotFound")
         /\ UNCHANGED <<jobs, inflight, orphans, isShuttingDown, sd>>
    ELSE IF RunNowBusy(jobs[n])
         THEN /\ out = "pending"
              /\ last' = Last("runNow", n, "none", "JobAlreadyRunning")
              /\ UNCHANGED <<jobs, inflight, orphans, isShuttingDown, sd>>
         ELSE /\ jobs[n].runCount < MaxRuns
              /\ LET r == Invoke(jobs[n], inflight[n], "runNow", out)
                 IN  /\ jobs' = [jobs EXCEPT ![n] = r.job]
                     /\ inflight' = [inflight EXCEPT ![n] = r.inflight]
              /\ last' = Last("runNow", n, "runNow",
                               IF out = "pending" THEN "pending" ELSE Rejected(out))
              /\ UNCHANGED <<orphans, isShuttingDown, sd>>

(***************************************************************************)
(* The promise of an awaited fn() settles: the continuation of runJob      *)
(* (by = "runJob") or of runNow (by = "runNow").  out is "ok" or the       *)
(* rejection.                                                              *)
(***************************************************************************)
Settle(n, by, out) ==
    /\ inflight[n][by] > 0
    /\ inflight' = [inflight EXCEPT ![n][by] = @ - 1]
    /\ jobs' = [jobs EXCEPT ![n] = Settled(jobs[n], out)]
    /\ last' = Last("settle", n, by, Propagated(by, out))
    /\ UNCHANGED <<orphans, isShuttingDown, sd>>

\* the same continuation, of an object that left jobs
SettleOrphan(e, by, out) ==
    /\ e \in BagToSet(orphans) /\ e[by] > 0
    /\ orphans' = Put(Take(orphans, e),
                      Orphan(Settled(Unread(e), out), [Awaited(e) EXCEPT ![by] = @ - 1]))
    /\ last' = Last("settleOrphan", e.name, by, Propagated(by, out))
    /\ UNCHANGED <<jobs, inflight, isShuttingDown, sd>>

(***************************************************************************)
(* shutdown()                                                              *)
(***************************************************************************)
\* Array.from(jobs.values()).filter(j => j.isRunning)
RunningJobs(j) == {n \in Names : j[n] # NoJob /\ j[n].isRunning}

\* for (const [name, job] of jobs) clearInterval(job.intervalId)
TimersCleared(j) ==
    [n \in Names |-> IF j[n] # NoJob THEN [j[n] EXCEPT !.intervalId = FALSE] ELSE NoJob]

\* shutdown() without jobs.clear()
Cleared_Kept == jobs

\* jobs.clear()
Cleared == [n \in Names |-> NoJob]

\* while (Date.now() - start < maxWait) { if (stillRunning.length === 0) break; ... }
KeepsWaiting(waited, j) == waited < maxWait /\ RunningJobs(j) # {}

\* the start time read again at every poll: the loop never sees time pass
Elapsed_Restarted(waited, d) == 0

\* Date.now() - start, d ms after it was waited
Elapsed(waited, d) == waited + d

ShutdownCall(s) ==
    /\ sd[s].pc # "sleeping"
    /\ isShuttingDown' = TRUE
    /\ LET j1 == TimersCleared(jobs) IN
       IF RunningJobs(j1) # {} /\ KeepsWaiting(0, j1)
       THEN /\ sd' = [sd EXCEPT ![s] = [pc |-> "sleeping", waited |-> 0]]
            /\ jobs' = j1
            /\ last' = Last("shutdown", NULL, "none", "pending")
            /\ UNCHANGED <<inflight, orphans>>
       ELSE /\ jobs' = Cleared
            /\ orphans' = Orphaned(orphans, j1, inflight, RegisteredNames)
            /\ inflight' = [n \in Names |-> None]
            /\ sd' = [sd EXCEPT ![s] = [pc |-> "done", waited |-> 0]]
            /\ last' = Last("shutdown", NULL, "none", "returned")

\* the continuation after await new Promise(r => setTimeout(r, 100)):
\* d ms after the timer was set, back at the head of the while loop
ShutdownWake(s, d) ==
    /\ sd[s].pc = "sleeping"
    /\ LET waited == Elapsed(sd[s].waited, d) IN
       IF KeepsWaiting(waited, jobs)
       THEN /\ sd' = [sd EXCEPT ![s].waited = waited]
            /\ last' = Last("shutdownWake", NULL, "none", "pending")
            /\ UNCHANGED <<jobs, inflight, orphans>>
       ELSE /\ jobs' = Cleared
            /\ orphans' = Orphaned(orphans, jobs, inflight, RegisteredNames)
            /\ inflight' = [n \in Names |-> None]
            /\ sd' = [sd EXCEPT ![s] = [pc |-> "done", waited |-> 0]]
            /\ last' = Last("shutdownWake", NULL, "none", "returned")
    /\ UNCHANGED isShuttingDown

(***************************************************************************)
(* getJobStatus(name)                                                      *)
(***************************************************************************)
getJobStatus(n) ==
    IF jobs[n] = NoJob THEN NULL
    ELSE LET job == jobs[n] IN
         [name |-> job.name, intervalMs |-> job.intervalMs, isRunning |-> job.isRunning,
          lastRun |-> job.lastRun, lastError |-> job.lastError, runCount |-> job.runCount]

\* getAllJobStatuses(): the statuses of the entries of jobs
getAllJobStatuses == {getJobStatus(n) : n \in RegisteredNames}

(***************************************************************************)
(* Strings of the update checker are sequences of characters, so that the  *)
(* string operations of the code do what they do in JavaScript.            *)
(***************************************************************************)
nullStr == <<"null">>
undefinedStr == <<"undefined">>

\* values that are not strings, where the code expects a string
aNumber == <<"number">>
anObject == <<"object">>

Truthy(s) == s # nullStr /\ s # undefinedStr /\ s # <<>>

\* typeof v === 'string'
IsString(v) == v \notin {nullStr, undefinedStr, aNumber, anObject}

indexOf(s, c) ==
    IF \E i \in 1..Len(s) : s[i] = c
    THEN (CHOOSE i \in 1..Len(s) : s[i] = c /\ \A j \in 1..(i - 1) : s[j] # c) - 1
    ELSE -1

lastIndexOf(s, c) ==
    IF \E i \in 1..Len(s) : s[i] = c
    THEN (CHOOSE i \in 1..Len(s) : s[i] = c /\ \A j \in (i + 1)..Len(s) : s[j] # c) - 1
    ELSE -1

substring(s, from, to) == SubSeq(s, from + 1, to)

substringFrom(s, from) == SubSeq(s, from + 1, Len(s))

includes(s, c) == \E i \in 1..Len(s) : s[i] = c

startsWith(s, prefix) == Len(s) >= Len(prefix) /\ SubSeq(s, 1, Len(prefix)) = prefix

RECURSIVE trimStart(_)
trimStart(s) == IF s # <<>> /\ Head(s) = " " THEN trimStart(Tail(s)) ELSE s

RECURSIVE trimEnd(_)
trimEnd(s) == IF s # <<>> /\ s[Len(s)] = " " THEN trimEnd(SubSeq(s, 1, Len(s) - 1)) ELSE s

trim(s) == trimEnd(trimStart(s))

DEFAULT_REGISTRY ==
    <<"r","e","g","i","s","t","r","y","-","1",".","d","o","c","k","e","r",".","i","o">>
DEFAULT_TAG == <<"l","a","t","e","s","t">>
docker_io == <<"d","o","c","k","e","r",".","i","o">>
localhost == <<"l","o","c","a","l","h","o","s","t">>
library_ == <<"l","i","b","r","a","r","y","/">>
sha256_ == <<"s","h","a","2","5","6",":">>

InvalidReference ==
    [error |-> "Invalid image reference", registry |-> nullStr, repository |-> nullStr,
     tag |-> nullStr, digest |-> nullStr]

\* the digest after '@', if any
SplitDigest(s) ==
    LET digestIndex == indexOf(s, "@")
    IN  IF digestIndex # -1
        THEN [digest |-> substringFrom(s, digestIndex + 1), rest |-> substring(s, 0, digestIndex)]
        ELSE [digest |-> nullStr, rest |-> s]

\* the last ':' taken as the tag delimiter wherever it is
SplitTag_AnyColon(s, digest) ==
    LET tagIndex == lastIndexOf(s, ":")
    IN  IF ~Truthy(digest) /\ tagIndex # -1
        THEN [tag |-> substringFrom(s, tagIndex + 1), rest |-> substring(s, 0, tagIndex)]
        ELSE [tag |-> DEFAULT_TAG, rest |-> s]

\* the tag after the last ':', unless there is a digest or a '/' follows (a port)
SplitTag(s, digest) ==
    LET tagIndex == lastIndexOf(s, ":")
    IN  IF ~Truthy(digest) /\ tagIndex # -1 /\ ~includes(substringFrom(s, tagIndex + 1), "/")
        THEN [tag |-> substringFrom(s, tagIndex + 1), rest |-> substring(s, 0, tagIndex)]
        ELSE [tag |-> DEFAULT_TAG, rest |-> s]

IsRegistry(potentialRegistry) ==
    \/ includes(potentialRegistry, ".")
    \/ includes(potentialRegistry, ":")
    \/ potentialRegistry = localhost

\* the registry before the first '/'
SplitRegistry(s) ==
    LET slashIndex == indexOf(s, "/")
    IN  IF slashIndex # -1 /\ IsRegistry(substring(s, 0, slashIndex))
        THEN [registry |-> substring(s, 0, slashIndex), rest |-> substringFrom(s, slashIndex + 1)]
        ELSE [registry |-> DEFAULT_REGISTRY, rest |-> s]

\* the registry and the repository returned as they were written
Parsed_AsWritten(registry, remaining, tag, digest) ==
    [error |-> NULL, registry |-> registry, repository |-> remaining,
     tag |-> tag, digest |-> digest]

\* Docker Hub special cases
Parsed(registry, remaining, tag, digest) ==
    IF registry = DEFAULT_REGISTRY \/ registry = docker_io
    THEN [error |-> NULL, registry |-> DEFAULT_REGISTRY,
          repository |-> IF ~includes(remaining, "/") THEN library_ \o remaining ELSE remaining,
          tag |-> tag, digest |-> digest]
    ELSE [error |-> NULL, registry |-> registry, repository |-> remaining,
          tag |-> tag, digest |-> digest]

ParseHosted(d, t, r) == Parsed(r.registry, r.rest, t.tag, d.digest)

ParseTagged(d, t) == ParseHosted(d, t, SplitRegistry(t.rest))

ParseTrimmed(d) == ParseTagged(d, SplitTag(d.rest, d.digest))

\* parseImageReference without its test of the argument
Invalid_Never(imageRef) == FALSE

\* !imageRef || typeof imageRef !== 'string'
Invalid(imageRef) == ~Truthy(imageRef) \/ ~IsString(imageRef)

parseImageReference(imageRef) ==
    IF Invalid(imageRef) THEN InvalidReference
    ELSE ParseTrimmed(SplitDigest(trim(imageRef)))

\* toString() that leaves the tag out
toString_NoTag(p) == p.registry \o <<"/">> \o p.repository

\* toString() of a parsed reference
toString(p) ==
    IF Truthy(p.digest)
    THEN p.registry \o <<"/">> \o p.repository \o <<"@">> \o p.digest
    ELSE p.registry \o <<"/">> \o p.repository \o <<":">> \o p.tag

isDockerHub(p) == p.registry = DEFAULT_REGISTRY

getLocalDigest(imageInspect) ==
    LET repoDigests == imageInspect.RepoDigests
        digestRef == repoDigests[1]
        atIndex == indexOf(digestRef, "@")
    IN  IF Len(repoDigests) > 0 /\ atIndex # -1
        THEN substringFrom(digestRef, atIndex + 1)
        ELSE imageInspect.Id

(***************************************************************************)
(* The update checker (createUpdateChecker) and what it talks to: the      *)
(* docker daemon with its containers and images, and the registries.       *)
(***************************************************************************)
D0 == <<"d","0">>
D1 == <<"d","1">>
D2 == <<"d","2">>
Digests == {D0, D1, D2}

\* docker.listContainers({ all: true }): tagged, untagged, pinned twice, no image
Fleet ==
    << [Id |-> "c1", Names |-> << <<"/","w">> >>, Image |-> <<"n",":","t">>, ImageID |-> "i1"],
       [Id |-> "c2", Names |-> << <<"/","v">> >>, Image |-> <<"r","/","n">>, ImageID |-> "i2"],
       [Id |-> "c3", Names |-> << <<"/","p">> >>, Image |-> sha256_ \o <<"a">>, ImageID |-> "i3"],
       [Id |-> "c4", Names |-> << <<"q">> >>, Image |-> <<"n","@">> \o D1, ImageID |-> "i1"],
       [Id |-> "c5", Names |-> << >>, Image |-> << >>, ImageID |-> "i2"] >>

CIds == {Fleet[i].Id : i \in 1..Len(Fleet)}

\* docker.getImage(id).inspect()
ImageInspect(id) ==
    IF id = "i1" THEN [RepoDigests |-> << <<"n","@">> \o D0 >>, Id |-> <<"i","1">>]
    ELSE [RepoDigests |-> << >>, Id |-> D0]

\* the image references a registry is asked about
Tracked == {<<"n",":","t">>, <<"r","/","n">>}

\* the digests pushed under each of them
Pushed(r) == IF r = <<"n",":","t">> THEN Digests ELSE {D0, D1}

IOs == {"ok", "inspectFails", "fetchFails"}

CallIds == {"k1", "k2"}
Methods == {"checkForUpdates", "checkForNewUpdates"}

Star == [set |-> TRUE, star |-> TRUE, list |-> << >>]
Unset == [set |-> FALSE, star |-> FALSE, list |-> << >>]
Listing(names) == [set |-> TRUE, star |-> FALSE, list |-> names]

Configs ==
    { [containers |-> Star, excludeContainers |-> << >>],
      [containers |-> Unset, excludeContainers |-> << <<"v">> >>],
      [containers |-> Listing(<< <<"w">>, <<"v">>, <<"unknown">> >>),
       excludeContainers |-> << <<"v">> >>] }

arrayIncludes(arr, x) == \E i \in 1..Len(arr) : arr[i] = x

\* the include list looked at before the exclude list
shouldCheckContainer_IncludeFirst(containerName, cfg) ==
    IF cfg.containers.star \/ ~cfg.containers.set THEN TRUE
    ELSE IF arrayIncludes(cfg.containers.list, containerName) THEN TRUE
    ELSE ~arrayIncludes(cfg.excludeContainers, containerName)

shouldCheckContainer(containerName, cfg) ==
    IF arrayIncludes(cfg.excludeContainers, containerName) THEN FALSE
    ELSE IF cfg.containers.star \/ ~cfg.containers.set THEN TRUE
    ELSE arrayIncludes(cfg.containers.list, containerName)

\* container.Names[0]?.replace(/^\//, '') || 'unknown'
ContainerName(container) ==
    LET first == IF Len(container.Names) > 0 THEN container.Names[1] ELSE undefinedStr
        bare == IF first # undefinedStr /\ startsWith(first, <<"/">>) THEN Tail(first) ELSE first
    IN  IF Truthy(bare) THEN bare ELSE <<"unknown">>

NoInfo ==
    [containerId |-> NULL, containerName |-> nullStr, image |-> nullStr,
     localDigest |-> nullStr, remoteDigest |-> nullStr, hasUpdate |-> FALSE]

Returned(info) == [kind |-> "info", info |-> info]
ReturnedNull == [kind |-> "null", info |-> NoInfo]
Threw == [kind |-> "threw", info |-> NoInfo]
Logged == [kind |-> "logged", info |-> NoInfo]
Skipped == [kind |-> "skipped", info |-> NoInfo]

\* How far the loop body got with a container: "skipped" by the filter,
\* "evaluated" (checkContainerForUpdate called), "inspected" (inspect()
\* of its image called), "fetched" (getRemoteDigest() called).
Stages == {"skipped", "evaluated", "inspected", "fetched"}

At(stage, r) == [kind |-> r.kind, info |-> r.info, reached |-> stage]

\* checkContainerForUpdate without its test for a bare digest
IsDigestImage_Never(imageRef) == FALSE

\* imageRef.startsWith('sha256:')
IsDigestImage(imageRef) == startsWith(imageRef, sha256_)

checkContainerForUpdate(container, io, remoteDigest) ==
    LET imageRef == container.Image
        parsed == parseImageReference(imageRef)
        localDigest == getLocalDigest(ImageInspect(container.ImageID))
    IN  IF IsDigestImage(imageRef) THEN At("evaluated", ReturnedNull)
        ELSE IF parsed.error # NULL THEN At("evaluated", Threw)
        ELSE IF Truthy(parsed.digest) THEN At("evaluated", ReturnedNull)
        ELSE IF io = "inspectFails" THEN At("inspected", Threw)
        ELSE IF io = "fetchFails" THEN At("fetched", Threw)
        ELSE At("fetched", Returned([containerId |-> container.Id,
                                     containerName |-> ContainerName(container),
                                     image |-> imageRef,
                                     localDigest |-> localDigest,
                                     remoteDigest |-> remoteDigest,
                                     hasUpdate |-> localDigest # remoteDigest]))

\* the try / catch of checkForUpdates around one container
TryCheck_Uncaught(container, io, remoteDigest) == checkContainerForUpdate(container, io, remoteDigest)

\* a catch block that reports the container as updated to an unknown digest
TryCheck_Assumed(container, io, remoteDigest) ==
    LET r == checkContainerForUpdate(container, io, remoteDigest)
    IN  IF r.kind = "threw"
        THEN At(r.reached, Returned([containerId |-> container.Id,
                                     containerName |-> ContainerName(container),
                                     image |-> container.Image,
                                     localDigest |-> undefinedStr,
                                     remoteDigest |-> nullStr,
                                     hasUpdate |-> TRUE]))
        ELSE r

TryCheck(container, io, remoteDigest) ==
    LET r == checkContainerForUpdate(container, io, remoteDigest)
    IN  IF r.kind = "threw" THEN At(r.reached, Logged) ELSE r

\* one pass of the for loop of checkForUpdates
Iteration(container, io, remoteDigest, cfg) ==
    IF ~shouldCheckContainer(ContainerName(container), cfg) THEN At("skipped", Skipped)
    ELSE TryCheck(container, io, remoteDigest)

NoHistory == [c \in CIds |-> undefinedStr]

\* what had been observed when a checkForNewUpdates came to compare
Observed(obs, rep, e) == [obs |-> obs, reported |-> rep, era |-> e]

Idle ==
    [pc |-> "idle", method |-> "checkForUpdates", i |-> 0, gone |-> {}, updates |-> << >>,
     failed |-> {}, seen |-> NoHistory, reached |-> [c \in CIds |-> "none"],
     status |-> "none", value |-> << >>,
     prior |-> Observed(NoHistory, NoHistory, "constructed")]

\* no call returned any digest yet
Untold == [c \in CIds |-> [d \in Digests |-> "never"]]

\* the containers that run the image reference r
Running(r) == {Fleet[i].Id : i \in {j \in 1..Len(Fleet) : Fleet[j].Image = r}}

UCInit(cfgs) ==
    /\ told = Untold
    /\ config \in cfgs
    /\ lastNotifiedDigests = NoHistory
    /\ remote = [r \in Tracked |-> D0]
    /\ calls = [k \in CallIds |-> Idle]
    /\ prevObs = NoHistory
    /\ reported = NoHistory
    /\ era = "constructed"

\* a new image is pushed under a tag
Publish(r, d) ==
    /\ d # remote[r]
    /\ remote' = [remote EXCEPT ![r] = d]
    /\ told' = [c \in CIds |-> IF c \in Running(r) THEN [told[c] EXCEPT ![d] = "never"]
                                ELSE told[c]]
    /\ UNCHANGED <<config, lastNotifiedDigests, calls, prevObs, reported, era>>

\* checkForUpdates() or checkForNewUpdates() is called and awaits listContainers
Call(k, method) ==
    /\ calls[k].pc \in {"idle", "done"}
    /\ calls' = [calls EXCEPT ![k] = [Idle EXCEPT !.pc = "listing", !.method = method,
                                                  !.status = "pending"]]
    /\ UNCHANGED <<config, lastNotifiedDigests, remote, prevObs, reported, era, told>>

\* checkForUpdates returns: its caller continues, or checkForNewUpdates resumes
AfterLoop(call) ==
    IF call.method = "checkForUpdates"
    THEN [call EXCEPT !.pc = "done", !.status = "resolved", !.value = call.updates]
    ELSE [call EXCEPT !.pc = "dedup"]

Rejects(call) == [call EXCEPT !.pc = "done", !.status = "rejected"]

\* listContainers settles: it rejects, or it resolves with the containers
\* there are, those of Fleet that are not gone
Listed(k, ok, gone) ==
    /\ calls[k].pc = "listing"
    /\ ~ok => gone = {}
    /\ calls' = [calls EXCEPT ![k] =
                    IF ~ok THEN Rejects(@)
                    ELSE IF Len(Fleet) = 0 THEN AfterLoop(@)
                    ELSE [@ EXCEPT !.pc = "checking", !.i = 1, !.gone = gone]]
    /\ UNCHANGED <<config, lastNotifiedDigests, remote, prevObs, reported, era, told>>

RemoteDigest(container) ==
    IF container.Image \in Tracked THEN remote[container.Image] ELSE undefinedStr

\* checkForUpdates pushing every record it gets
Pushes_Any(r) == r.kind = "info"

\* if (updateInfo && updateInfo.hasUpdate) updates.push(updateInfo)
Pushes(r) == r.kind = "info" /\ r.info.hasUpdate

\* one container of the list is evaluated
CheckStep(k, io) ==
    /\ calls[k].pc = "checking"
    /\ LET call == calls[k]
           container == Fleet[call.i]
           r == Iteration(container, io, RemoteDigest(container), config)
           threw == checkContainerForUpdate(container, io, RemoteDigest(container)).kind = "threw"
           listed == container.Id \notin call.gone
           noted == IF ~listed THEN call ELSE
                    [call EXCEPT
                       !.updates = IF Pushes(r) THEN Append(@, r.info) ELSE @,
                       !.failed = IF r.reached # "skipped" /\ threw
                                  THEN @ \cup {container.Id} ELSE @,
                       !.reached = [@ EXCEPT ![container.Id] = r.reached],
                       !.seen = IF r.kind = "info"
                                THEN [@ EXCEPT ![container.Id] = r.info.remoteDigest] ELSE @]
       IN  calls' = [calls EXCEPT ![k] =
                        IF listed /\ r.kind = "threw" THEN Rejects(noted)
                        ELSE IF call.i = Len(Fleet) THEN AfterLoop(noted)
                        ELSE [noted EXCEPT !.i = @ + 1]]
    /\ UNCHANGED <<config, lastNotifiedDigests, remote, prevObs, reported, era, told>>

IsNew_Once(lastDigest, remoteDigest) == lastDigest = undefinedStr

IsNew(lastDigest, remoteDigest) == lastDigest # remoteDigest

Remember_Nothing(history, update) == history

Remember(history, update) == [history EXCEPT ![update.containerId] = update.remoteDigest]

\* the loop of checkForNewUpdates over allUpdates
RECURSIVE NewUpdates(_, _, _)
NewUpdates(allUpdates, history, newUpdates) ==
    IF allUpdates = << >> THEN [newUpdates |-> newUpdates, history |-> history]
    ELSE LET update == Head(allUpdates)
         IN  IF IsNew(history[update.containerId], update.remoteDigest)
             THEN NewUpdates(Tail(allUpdates), Remember(history, update),
                             Append(newUpdates, update))
             ELSE NewUpdates(Tail(allUpdates), history, newUpdates)

Ids(updates) == {updates[i].containerId : i \in 1..Len(updates)}

DigestIn(updates, c) ==
    IF c \in Ids(updates)
    THEN (CHOOSE u \in {updates[i] : i \in 1..Len(updates)} : u.containerId = c).remoteDigest
    ELSE undefinedStr

\* checkForNewUpdates after its await: compare with the history, record, return
Dedup(k) ==
    /\ calls[k].pc = "dedup"
    /\ LET r == NewUpdates(calls[k].updates, lastNotifiedDigests, << >>)
       IN  /\ lastNotifiedDigests' = r.history
           /\ calls' = [calls EXCEPT ![k] = [@ EXCEPT !.pc = "done", !.status = "resolved",
                                                       !.value = r.newUpdates,
                                                       !.prior = Observed(prevObs, reported, era)]]
           /\ prevObs' = [c \in CIds |-> DigestIn(calls[k].updates, c)]
           /\ reported' = [c \in CIds |-> IF c \in Ids(r.newUpdates)
                                          THEN DigestIn(r.newUpdates, c) ELSE reported[c]]
           /\ told' = [c \in CIds |->
                         IF c \in Ids(r.newUpdates)
                         THEN [told[c] EXCEPT ![DigestIn(r.newUpdates, c)] =
                                  IF @ = "never" THEN "once" ELSE "again"]
                         ELSE told[c]]
    /\ era' = "used"
    /\ UNCHANGED <<config, remote>>

clearNotificationHistory_Kept(history) == history

clearNotificationHistory(history) == NoHistory

Clear ==
    /\ lastNotifiedDigests' = clearNotificationHistory(lastNotifiedDigests)
    /\ prevObs' = NoHistory
    /\ era' = "cleared"
    /\ told' = Untold
    /\ UNCHANGED <<config, remote, calls, reported>>

\* getNotificationHistory returning the Map of the engine itself
getNotificationHistory_Live(history) == [taken |-> TRUE, map |-> history, shared |-> TRUE]

\* return new Map(lastNotifiedDigests): a Map of its own with the same entries
getNotificationHistory(history) == [taken |-> TRUE, map |-> history, shared |-> FALSE]

\* no Map has been handed out
NoSnapshot == [taken |-> FALSE, map |-> NoHistory, shared |-> FALSE]

\* a caller asks for the history
GetHistory ==
    /\ snapshot' = getNotificationHistory(lastNotifiedDigests)
    /\ UNCHANGED ucVars

\* the caller changes the Map it got: set(c, d), or delete(c) for d undefined
SnapshotSet(c, d) ==
    /\ snapshot.taken /\ snapshot.map[c] # d
    /\ snapshot' = [snapshot EXCEPT !.map[c] = d]
    /\ lastNotifiedDigests' = IF snapshot.shared
                              THEN [lastNotifiedDigests EXCEPT ![c] = d]
                              ELSE lastNotifiedDigests
    /\ UNCHANGED <<config, remote, calls, prevObs, reported, era, told>>

\* the update checker and a caller that reads its history: the caller
\* changes the entries of the containers cs to the values ds
CallerNext(cs, ds) ==
    \/ GetHistory /\ UNCHANGED offCaller
    \/ \E c \in cs, d \in ds : SnapshotSet(c, d) /\ UNCHANGED offCaller

\* calls K of the methods M, pushes under the references T, and listings
\* from which the containers of one of the sets G are gone
UCNextWith(K, M, T, G) ==
    \/ \E r \in T : \E d \in Pushed(r) : Publish(r, d) /\ UNCHANGED offUC
    \/ \E k \in K, m \in M : Call(k, m) /\ UNCHANGED offUC
    \/ \E k \in K, ok \in BOOLEAN, gone \in G : Listed(k, ok, gone) /\ UNCHANGED offUC
    \/ \E k \in K, io \in IOs : CheckStep(k, io) /\ UNCHANGED offUC
    \/ \E k \in K : Dedup(k) /\ UNCHANGED offUC
    \/ Clear /\ UNCHANGED offUC

\* the same with every container of Fleet listed every time
UCNextOf(K, M, T) == UCNextWith(K, M, T, {{}})

UCNext(K) == UCNextOf(K, Methods, Tracked)

SchedNextOf(N, D, S) ==
    \/ \E n \in N, r \in BOOLEAN, out \in Outcomes : \E a \in ArgsFor(n) : Schedule(n, a, r, out) /\ UNCHANGED offSched
    \/ \E n \in N, out \in Outcomes : Tick(n, out) /\ UNCHANGED offSched
    \/ \E e \in BagToSet(orphans), out \in Outcomes : TickOrphan(e, out) /\ UNCHANGED offSched
    \/ \E n \in N : Cancel(n) /\ UNCHANGED offSched
    \/ \E n \in N, out \in Outcomes : RunNow(n, out) /\ UNCHANGED offSched
    \/ \E n \in N, by \in Wrappers, out \in Settlements : Settle(n, by, out) /\ UNCHANGED offSched
    \/ \E e \in BagToSet(orphans), by \in Wrappers, out \in Settlements : SettleOrphan(e, by, out) /\ UNCHANGED offSched
    \/ \E s \in S : ShutdownCall(s) /\ UNCHANGED offSched
    \/ \E s \in S, d \in D : ShutdownWake(s, d) /\ UNCHANGED offSched

\* the scheduler with one caller of shutdown()
SchedNext(N, D) == SchedNextOf(N, D, OneCaller)

(***************************************************************************)
(* The scheduler with the promise guard (the second createScheduler of the *)
(* repository): job.runningPromise in the place of job.isRunning, and a    *)
(* shutdown() that races the promises in flight against a timer.  Its      *)
(* state is jobsP, inflightP, orphansP, isShuttingDownP, sdP, lastP.       *)
(***************************************************************************)
\* job.runningPromise: null, or the promise of the async function that calls fn()
NoPromise == [state |-> "null", error |-> NULL]
Unsettled == [state |-> "pending", error |-> NULL]
Fulfilled == [state |-> "fulfilled", error |-> NULL]
RejectedBy(e) == [state |-> "rejected", error |-> e]

\* no call of fn() awaited on the object; watchers: the calls of shutdown()
\* whose Promise.all holds the promise of the object
Unwatched == [by |-> "none", watchers |-> {}]

\* const job = {...}: the object literal of schedule()
NewJobP(n, a) ==
    [name |-> n, fn |-> a.fn, intervalMs |-> a.intervalMs,
     intervalId |-> FALSE, runningPromise |-> NoPromise, lastRun |-> NULL,
     lastError |-> NULL, runCount |-> 0]

RegisteredNamesP == {n \in Names : jobsP[n] # NoJob}

AliveP == Cardinality(RegisteredNamesP) + BagCardinality(orphansP)

InitP ==
    /\ jobsP = [n \in Names |-> NoJob]
    /\ inflightP = [n \in Names |-> Unwatched]
    /\ orphansP = EmptyBag
    /\ isShuttingDownP = FALSE
    /\ sdP = [s \in SdCalls |-> [pc |-> "idle", left |-> 0, failed |-> NULL]]
    /\ lastP = Last("init", NULL, "none", Void)

\* if (isShuttingDown || job.runningPromise) return;
RunJobSkipsP(shuttingDown, job) == shuttingDown \/ job.runningPromise # NoPromise

\* if (job.runningPromise) throw new Error(... is already running)
RunNowBusyP(job) == job.runningPromise # NoPromise

\* The async function of a wrapper up to the return of its promise.  fn()
\* returned a pending promise: the function is suspended at its await.  fn()
\* threw: catch and finally have run, and the promise is settled already,
\* rejected where the catch block rethrows (runNow).
Called(job, by, out) ==
    IF out = "pending"
    THEN [job |-> job, promise |-> Unsettled]
    ELSE [job |-> [job EXCEPT !.lastError = out, !.runningPromise = NoPromise],
          promise |-> IF by = "runJob" THEN Fulfilled ELSE RejectedBy(out)]

\* job.runningPromise = (async () => {...})(): the assignment follows the call
Guarded(job, by, out) ==
    LET r == Called(job, by, out)
    IN  [job |-> [r.job EXCEPT !.runningPromise = r.promise],
         inflight |-> IF out = "pending" THEN [by |-> by, watchers |-> {}] ELSE Unwatched]

\* the async function after its await: try or catch, then finally
Continued(job, out) ==
    IF out = "ok"
    THEN [job EXCEPT !.lastRun = "date", !.lastError = NULL,
                     !.runCount = @ + 1, !.runningPromise = NoPromise]
    ELSE [job EXCEPT !.lastError = out, !.runningPromise = NoPromise]

\* what the caller of the wrapper sees: runJob logs, runNow rethrows
PropagatedP(by, out) ==
    IF by = "runJob" THEN Void ELSE IF out = "ok" THEN "resolved" ELSE Rejected(out)

\* Promise.all of the calls of shutdown() in ws when one of its promises
\* settles: fulfilled (e = NULL), or rejected with e
Notified(S, ws, e) ==
    [s \in SdCalls |->
        IF s \in ws /\ S[s].pc = "racing" /\ S[s].failed = NULL
        THEN IF e = NULL THEN [S[s] EXCEPT !.left = @ - 1]
                         ELSE [S[s] EXCEPT !.left = 0, !.failed = e]
        ELSE S[s]]

\* the rejection a promise of wrapper by settles with, NULL if it is fulfilled
Rejection(by, out) == IF by = "runNow" /\ out # "ok" THEN out ELSE NULL

ScheduleP(n, a, runImmediately, out) ==
    IF jobsP[n] # NoJob
    THEN /\ out = "pending"
         /\ lastP' = Last("schedule", n, "none", "DuplicateJob")
         /\ UNCHANGED <<jobsP, inflightP, orphansP, isShuttingDownP, sdP>>
    ELSE /\ AliveP < MaxObjs
         /\ LET job == [NewJobP(n, a) EXCEPT !.intervalId = TRUE]
            IN  IF runImmediately /\ ~RunJobSkipsP(isShuttingDownP, job)
                THEN LET r == Guarded(job, "runJob", out)
                     IN  /\ jobsP' = [jobsP EXCEPT ![n] = r.job]
                         /\ inflightP' = [inflightP EXCEPT ![n] = r.inflight]
                         /\ lastP' = Last("schedule", n, "runJob", "job")
                ELSE /\ out = "pending"
                     /\ jobsP' = [jobsP EXCEPT ![n] = job]
                     /\ inflightP' = [inflightP EXCEPT ![n] = Unwatched]
                     /\ lastP' = Last("schedule", n, "none", "job")
         /\ UNCHANGED <<orphansP, isShuttingDownP, sdP>>

\* one firing of the setInterval timer: runJob()
TickP(n, out) ==
    /\ jobsP[n] # NoJob /\ jobsP[n].intervalId
    /\ IF RunJobSkipsP(isShuttingDownP, jobsP[n])
       THEN /\ out = "pending"
            /\ lastP' = Last("tick", n, "none", Void)
            /\ UNCHANGED <<jobsP, inflightP, orphansP, isShuttingDownP, sdP>>
       ELSE /\ jobsP[n].runCount < MaxRuns
            /\ LET r == Guarded(jobsP[n], "runJob", out)
               IN  /\ jobsP' = [jobsP EXCEPT ![n] = r.job]
                   /\ inflightP' = [inflightP EXCEPT ![n] = r.inflight]
            /\ lastP' = Last("tick", n, "runJob", Void)
            /\ UNCHANGED <<orphansP, isShuttingDownP, sdP>>

\* cancel(name): the object leaves jobs; a call of fn() awaited on it goes on
CancelP(n) ==
    /\ lastP' = Last("cancel", n, "none", Void)
    /\ IF jobsP[n] = NoJob
       THEN UNCHANGED <<jobsP, inflightP, orphansP, isShuttingDownP, sdP>>
       ELSE /\ orphansP' = IF inflightP[n].by = "none" THEN orphansP
                           ELSE orphansP (+) SetToBag({[name |-> n, by |-> inflightP[n].by,
                                                        watchers |-> inflightP[n].watchers]})
            /\ jobsP' = [jobsP EXCEPT ![n] = NoJob]
            /\ inflightP' = [inflightP EXCEPT ![n] = Unwatched]
            /\ UNCHANGED <<isShuttingDownP, sdP>>

\* runNow(name) up to its await
RunNowP(n, out) ==
    IF jobsP[n] = NoJob
    THEN /\ out = "pending"
         /\ lastP' = Last("runNow", n, "none", "JobNotFound")
         /\ UNCHANGED <<jobsP, inflightP, orphansP, isShuttingDownP, sdP>>
    ELSE IF RunNowBusyP(jobsP[n])
         THEN /\ out = "pending"
              /\ lastP' = Last("runNow", n, "none", "JobAlreadyRunning")
              /\ UNCHANGED <<jobsP, inflightP, orphansP, isShuttingDownP, sdP>>
         ELSE /\ jobsP[n].runCount < MaxRuns
              /\ LET r == Guarded(jobsP[n], "runNow", out)
                 IN  /\ jobsP' = [jobsP EXCEPT ![n] = r.job]
                     /\ inflightP' = [inflightP EXCEPT ![n] = r.inflight]
              /\ lastP' = Last("runNow", n, "runNow",
                                IF out = "pending" THEN "pending" ELSE Rejected(out))
              /\ UNCHANGED <<orphansP, isShuttingDownP, sdP>>

\* the promise of an awaited fn() settles: the async function runs to its
\* end, its promise settles, and the wrapper returns to its caller
SettleP(n, out) ==
    /\ inflightP[n].by # "none"
    /\ jobsP' = [jobsP EXCEPT ![n] = Continued(jobsP[n], out)]
    /\ inflightP' = [inflightP EXCEPT ![n] = Unwatched]
    /\ sdP' = Notified(sdP, inflightP[n].watchers, Rejection(inflightP[n].by, out))
    /\ lastP' = Last("settle", n, inflightP[n].by, PropagatedP(inflightP[n].by, out))
    /\ UNCHANGED <<orphansP, isShuttingDownP>>

\* the same, of an object that left jobs
SettleOrphanP(e, out) ==
    /\ e \in BagToSet(orphansP)
    /\ orphansP' = orphansP (-) SetToBag({e})
    /\ sdP' = Notified(sdP, e.watchers, Rejection(e.by, out))
    /\ lastP' = Last("settleOrphan", e.name, e.by, PropagatedP(e.by, out))
    /\ UNCHANGED <<jobsP, inflightP, isShuttingDownP>>

\* Array.from(jobs.values()).filter(j => j.runningPromise)
RunningPromises(j) == {n \in Names : j[n] # NoJob /\ j[n].runningPromise # NoPromise}

\* the names among ns whose promise is in the state st
InState(j, ns, st) == {n \in ns : j[n].runningPromise.state = st}

\* the call s of shutdown() holds no promise any more
Released(B, s) ==
    LET RECURSIVE Go(_, _)
        Go(C, S) == IF S = {} THEN C
                    ELSE LET e == CHOOSE x \in S : TRUE
                         IN  Go(C (+) [x \in {[e EXCEPT !.watchers = @ \ {s}]} |-> CopiesIn(e, B)],
                                S \ {e})
    IN  Go(EmptyBag, BagToSet(B))

\* jobs.clear(): the objects with a call of fn() awaited live on
ClearedP(B, j, f) ==
    LET RECURSIVE Go(_, _)
        Go(C, S) == IF S = {} THEN C
                    ELSE LET n == CHOOSE m \in S : TRUE
                         IN  Go(IF f[n].by = "none" THEN C
                                ELSE C (+) SetToBag({[name |-> n, by |-> f[n].by,
                                                      watchers |-> f[n].watchers]}),
                                S \ {n})
    IN  Go(B, {n \in Names : j[n] # NoJob})

\* shutdown() up to await Promise.race([...]), or to its end when nothing runs
ShutdownCallP(s) ==
    /\ sdP[s].pc # "racing"
    /\ isShuttingDownP' = TRUE
    /\ LET j1 == [n \in Names |-> IF jobsP[n] # NoJob
                                  THEN [jobsP[n] EXCEPT !.intervalId = FALSE] ELSE NoJob]
           running == RunningPromises(j1)
           rejected == InState(j1, running, "rejected")
           pending == InState(j1, running, "pending")
       IN  IF running = {}
           THEN /\ jobsP' = [n \in Names |-> NoJob]
                /\ inflightP' = [n \in Names |-> Unwatched]
                /\ orphansP' = ClearedP(orphansP, j1, inflightP)
                /\ sdP' = [sdP EXCEPT ![s] = [pc |-> "done", left |-> 0, failed |-> NULL]]
                /\ lastP' = Last("shutdown", NULL, "none", "returned")
           ELSE /\ jobsP' = j1
                /\ IF rejected # {}
                   THEN /\ sdP' = [sdP EXCEPT ![s] =
                                     [pc |-> "racing", left |-> 0,
                                      failed |-> j1[CHOOSE n \in rejected : TRUE].runningPromise.error]]
                        /\ UNCHANGED inflightP
                   ELSE /\ sdP' = [sdP EXCEPT ![s] =
                                     [pc |-> "racing", left |-> Cardinality(pending), failed |-> NULL]]
                        /\ inflightP' = [n \in Names |->
                                           IF n \in pending
                                           THEN [inflightP[n] EXCEPT !.watchers = @ \cup {s}]
                                           ELSE inflightP[n]]
                /\ lastP' = Last("shutdown", NULL, "none", "pending")
                /\ UNCHANGED orphansP

\* Promise.all settled first: shutdown() goes on past its await, or rejects
ShutdownResumeP(s) ==
    /\ sdP[s].pc = "racing"
    /\ sdP[s].failed # NULL \/ sdP[s].left = 0
    /\ IF sdP[s].failed # NULL
       THEN /\ sdP' = [sdP EXCEPT ![s] = [pc |-> "failed", left |-> 0, failed |-> NULL]]
            /\ inflightP' = [n \in Names |-> [inflightP[n] EXCEPT !.watchers = @ \ {s}]]
            /\ orphansP' = Released(orphansP, s)
            /\ lastP' = Last("shutdownResume", NULL, "none", Rejected(sdP[s].failed))
            /\ UNCHANGED jobsP
       ELSE /\ sdP' = [sdP EXCEPT ![s] = [pc |-> "done", left |-> 0, failed |-> NULL]]
            /\ jobsP' = [n \in Names |-> NoJob]
            /\ inflightP' = [n \in Names |-> Unwatched]
            /\ orphansP' = ClearedP(orphansP, jobsP, inflightP)
            /\ lastP' = Last("shutdownResume", NULL, "none", "returned")
    /\ UNCHANGED isShuttingDownP

\* the timer of 5000 ms settled first
ShutdownTimeoutP(s) ==
    /\ sdP[s].pc = "racing"
    /\ sdP[s].failed = NULL /\ sdP[s].left > 0
    /\ sdP' = [sdP EXCEPT ![s] = [pc |-> "done", left |-> 0, failed |-> NULL]]
    /\ jobsP' = [n \in Names |-> NoJob]
    /\ inflightP' = [n \in Names |-> Unwatched]
    /\ orphansP' = ClearedP(Released(orphansP, s), jobsP,
                            [n \in Names |-> [inflightP[n] EXCEPT !.watchers = @ \ {s}]])
    /\ lastP' = Last("shutdownTimeout", NULL, "none", "returned")
    /\ UNCHANGED isShuttingDownP

getJobStatusP(n) ==
    IF jobsP[n] = NoJob THEN NULL
    ELSE LET job == jobsP[n] IN
         [name |-> job.name, intervalMs |-> job.intervalMs,
          isRunning |-> job.runningPromise # NoPromise,
          lastRun |-> job.lastRun, lastError |-> job.lastError, runCount |-> job.runCount]

\* the scheduler with the promise guard: jobs N, callers S of shutdown(),
\* and actions whose calls do what O says
NextWithP(N, S, O) ==
    \/ \E n \in N, r \in BOOLEAN, out \in O : \E a \in ArgsFor(n) : ScheduleP(n, a, r, out) /\ UNCHANGED offP
    \/ \E n \in N, out \in O : TickP(n, out) /\ UNCHANGED offP
    \/ \E n \in N : CancelP(n) /\ UNCHANGED offP
    \/ \E n \in N, out \in O : RunNowP(n, out) /\ UNCHANGED offP
    \/ \E n \in N, out \in Settlements : SettleP(n, out) /\ UNCHANGED offP
    \/ \E e \in BagToSet(orphansP), out \in Settlements : SettleOrphanP(e, out) /\ UNCHANGED offP
    \/ \E s \in S : ShutdownCallP(s) /\ UNCHANGED offP
    \/ \E s \in S : ShutdownResumeP(s) /\ UNCHANGED offP
    \/ \E s \in S : ShutdownTimeoutP(s) /\ UNCHANGED offP

\* the actions return a promise, or throw before they return one
NextOfP(N, S) == NextWithP(N, S, Outcomes)

(***************************************************************************)
(* Calls of parseImageReference: every string of up to MaxLen characters   *)
(* of Alphabet, references built from the names the parser knows, and the  *)
(* values that are no strings.                                             *)
(***************************************************************************)
MaxLen == 5
Alphabet == {"a", ".", ":", "/", "@", " "}

Strings == UNION {[1..n -> Alphabet] : n \in 0..MaxLen}

Hosts ==
    {<< >>, docker_io \o <<"/">>, localhost \o <<"/">>, DEFAULT_REGISTRY \o <<"/">>,
     localhost \o <<":","5","/">>, docker_io \o <<":","5","/">>, <<"g",".","i","o","/">>}
Paths == {<<"n">>, <<"u","/","n">>, library_ \o <<"n">>, <<"o","/","p","/","n">>}
Suffixes == {<< >>, <<":","t">>, <<":">> \o DEFAULT_TAG, <<"@">> \o D1, <<":","t","@">> \o D1}

References == {h \o q \o x : h \in Hosts, q \in Paths, x \in Suffixes}

NonStrings == {nullStr, undefinedStr, aNumber, anObject}

Inputs == Strings \cup References \cup NonStrings

NotCalled ==
    [error |-> "not called", registry |-> nullStr, repository |-> nullStr,
     tag |-> nullStr, digest |-> nullStr]

ParseInit(inputs) ==
    /\ input \in inputs
    /\ result = NotCalled
    /\ again = NotCalled

\* parseImageReference(input)
Parse ==
    /\ result = NotCalled
    /\ result' = parseImageReference(input)
    /\ UNCHANGED <<input, again>>

\* parseImageReference(result.toString())
Reparse ==
    /\ result.error = NULL /\ again = NotCalled
    /\ again' = parseImageReference(toString(result))
    /\ UNCHANGED <<input, result>>

ParseNext ==
    \/ Parse /\ UNCHANGED offParse
    \/ Reparse /\ UNCHANGED offParse

(***************************************************************************)
(* The registry client (registry-client.js): one client made by            *)
(* createRegistryClient and one call of its getRemoteDigest.  fetch is the *)
(* environment: it resolves with a response or rejects with its own error. *)
(* A message is its template literal with the values it interpolates.      *)
(***************************************************************************)
ghcr_io == <<"g","h","c","r",".","i","o">>
http_ == <<"h","t","t","p",":","/","/">>
https_ == <<"h","t","t","p","s",":","/","/">>
auth_docker_io == https_ \o <<"a","u","t","h",".">> \o docker_io
bearer_ == <<"B","e","a","r","e","r"," ">>

isGHCR(p) == p.registry = ghcr_io

getRegistryUrl(p) ==
    IF p.registry = DEFAULT_REGISTRY THEN https_ \o DEFAULT_REGISTRY
    ELSE IF startsWith(p.registry, http_) \/ startsWith(p.registry, https_) THEN p.registry
    ELSE https_ \o p.registry

\* the images clients are made for: Docker Hub, GHCR, another registry
ClientRefs ==
    {<<"n">>, ghcr_io \o <<"/","u","/","r",":","v">>, <<"g",".","i","o","/","n">>}

\* options.ghcrToken: absent, '' (GHCR_TOKEN not set), a token
GhcrTokens == {undefinedStr, << >>, <<"g","h","p">>}

Statuses == {200, 401, 404, 500}

\* response.ok
Ok(response) == response.status \in 200..299

\* a body that is not JSON
NotJson == <<"not json">>

\* what the token endpoint answers: a status and a body, with or without a token
TokenResponses == [status : Statuses, token : {<<"t">>, undefinedStr, NotJson}, digest : {nullStr}]

\* what a registry answers: a status and the docker-content-digest header
ManifestResponses == [status : Statuses, token : {undefinedStr}, digest : {nullStr, << >>, D1}]

\* a template literal and what it interpolates; where: what it writes before
\* the repository; status: << >> where it writes none
Message(text, where, repository, tag, status) ==
    [text |-> text, where |-> where, repository |-> repository, tag |-> tag,
     status |-> status]

\* a message that interpolates nothing
Plain(text) == Message(text, << >>, << >>, << >>, << >>)

Error(name, message) == [name |-> name, message |-> message]

NoError == Error("none", Plain(""))

\* what fetch, or the reading of a body, rejects with when the network fails
NetworkErrors == {Error("TypeError", Plain("fetch failed"))}

\* what fetch rejects with when controller.abort() is called
AbortError == Error("AbortError", Plain("This operation was aborted"))

FetchErrors == NetworkErrors \cup {AbortError}

Pending == [state |-> "pending", value |-> nullStr, error |-> NoError]
FulfilledWith(v) == [state |-> "fulfilled", value |-> v, error |-> NoError]
RejectedWith(e) == [state |-> "rejected", value |-> nullStr, error |-> e]

Accept ==
    <<"application/vnd.docker.distribution.manifest.list.v2+json",
      "application/vnd.oci.image.index.v1+json",
      "application/vnd.docker.distribution.manifest.v2+json",
      "application/vnd.oci.image.manifest.v1+json">>

TokenRequest(repository) ==
    [endpoint |-> "token", base |-> auth_docker_io, repository |-> repository,
     tag |-> nullStr, accept |-> << >>, authorization |-> undefinedStr]

ManifestRequest(base, imageRef, authorization) ==
    [endpoint |-> "manifests", base |-> base, repository |-> imageRef.repository,
     tag |-> imageRef.tag, accept |-> Accept, authorization |-> authorization]

\* the Authorization header left out
Bearer_Missing(token) == undefinedStr

\* `Bearer ${token}`
Bearer(token) == bearer_ \o token

\* headers['Authorization'] of the request to ghcr.io
Authorization(token) == IF Truthy(token) THEN Bearer(token) ELSE undefinedStr

\* the check without the test of the header: whatever headers.get returns is returned
Digest_HeaderUnchecked(response, where, imageRef) ==
    IF ~Ok(response)
    THEN RejectedWith(Error("Error",
             Message("Failed to get manifest for ${where}${repository}:${tag}: ${status}",
                     where, imageRef.repository, imageRef.tag, <<response.status>>)))
    ELSE FulfilledWith(response.digest)

\* the check of a manifest response that the three flows share;
\* where: what the message writes before the repository
Digest(response, where, imageRef) ==
    IF ~Ok(response)
    THEN RejectedWith(Error("Error",
             Message("Failed to get manifest for ${where}${repository}:${tag}: ${status}",
                     where, imageRef.repository, imageRef.tag, <<response.status>>)))
    ELSE IF ~Truthy(response.digest)
    THEN RejectedWith(Error("Error",
             Message("No digest returned for ${where}${repository}:${tag}",
                     where, imageRef.repository, imageRef.tag, << >>)))
    ELSE FulfilledWith(response.digest)

\* every 401 of ghcr.io taken as a missing token
NeedsAuthentication_Any401(response, token) == response.status = 401

\* response.status === 401 && !token
NeedsAuthentication(response, token) == response.status = 401 /\ ~Truthy(token)

\* getGHCRDigest after its fetch
getGHCRDigest(imageRef, token, response) ==
    IF NeedsAuthentication(response, token)
    THEN RejectedWith(Error("Error",
             Message("GHCR requires authentication for ${repository}:${tag}. Set GHCR_TOKEN environment variable.",
                     << >>, imageRef.repository, imageRef.tag, << >>)))
    ELSE Digest(response, ghcr_io \o <<"/">>, imageRef)

\* getDockerHubDigest after the fetch of the manifest
getDockerHubDigest(imageRef, response) == Digest(response, << >>, imageRef)

\* getGenericRegistryDigest after its fetch
getGenericRegistryDigest(imageRef, response) ==
    Digest(response, imageRef.registry \o <<"/">>, imageRef)

\* timeoutId: the timer of fetchWithTimeout is set
Created == [pc |-> "created", timeoutId |-> FALSE, promise |-> Pending]
\* await fetch(url, {signal}) between setTimeout and clearTimeout
Awaiting(request) == [pc |-> request, timeoutId |-> TRUE, promise |-> Pending]
\* await response.json(), after fetchWithTimeout returned
Reading == [pc |-> "json", timeoutId |-> FALSE, promise |-> Pending]
Done(promise) == [pc |-> "done", timeoutId |-> FALSE, promise |-> promise]

\* createRegistryClient(imageRef, options)
RCInit(refs, tokens) ==
    /\ client \in [imageRef : {parseImageReference(r) : r \in refs}, ghcrToken : tokens]
    /\ requests = << >>
    /\ responses = << >>
    /\ digestCall = Created

\* getRemoteDigest() up to its first fetch
GetRemoteDigest ==
    /\ digestCall = Created
    /\ requests' =
          IF isDockerHub(client.imageRef)
          THEN <<TokenRequest(client.imageRef.repository)>>
          ELSE IF isGHCR(client.imageRef)
          THEN <<ManifestRequest(https_ \o ghcr_io, client.imageRef,
                                 Authorization(client.ghcrToken))>>
          ELSE <<ManifestRequest(getRegistryUrl(client.imageRef), client.imageRef,
                                 undefinedStr)>>
    /\ digestCall' = Awaiting(requests'[1].endpoint)
    /\ UNCHANGED <<client, responses>>

\* the token endpoint answers with its status and headers: fetchWithTimeout
\* clears its timer and returns, and getDockerHubToken throws or reads the body
TokenResponse(response) ==
    /\ digestCall = Awaiting("token")
    /\ responses' = Append(responses, response)
    /\ digestCall' =
          IF ~Ok(response)
          THEN Done(RejectedWith(Error("Error",
                   Message("Failed to get Docker Hub token for ${repository}: ${status}",
                           << >>, client.imageRef.repository, << >>, <<response.status>>))))
          ELSE Reading
    /\ UNCHANGED <<client, requests>>

\* the body of the token response has arrived: response.json() settles, and
\* getDockerHubDigest goes on to fetch the manifest
TokenBody ==
    /\ digestCall = Reading
    /\ LET response == responses[Len(responses)] IN
       IF response.token = NotJson
       THEN /\ digestCall' = Done(RejectedWith(Error("SyntaxError", Plain("Unexpected token"))))
            /\ UNCHANGED requests
       ELSE /\ requests' = Append(requests, ManifestRequest(https_ \o DEFAULT_REGISTRY,
                                                            client.imageRef,
                                                            Bearer(response.token)))
            /\ digestCall' = Awaiting("manifests")
    /\ UNCHANGED <<client, responses>>

\* the registry answers the manifest request
ManifestResponse(response) ==
    /\ digestCall = Awaiting("manifests")
    /\ responses' = Append(responses, response)
    /\ digestCall' =
          Done(IF isDockerHub(client.imageRef)
               THEN getDockerHubDigest(client.imageRef, response)
               ELSE IF isGHCR(client.imageRef)
               THEN getGHCRDigest(client.imageRef, client.ghcrToken, response)
               ELSE getGenericRegistryDigest(client.imageRef, response))
    /\ UNCHANGED <<client, requests>>

\* the fetch or the reading of the body rejects: its error leaves
\* getRemoteDigest as it is
FetchFails(err) ==
    /\ digestCall.pc \in {"token", "json", "manifests"}
    /\ digestCall' = Done(RejectedWith(err))
    /\ UNCHANGED <<client, requests, responses>>

\* the timer of fetchWithTimeout fires: controller.abort() rejects the fetch
Abort ==
    /\ digestCall.timeoutId
    /\ digestCall' = Done(RejectedWith(AbortError))
    /\ UNCHANGED <<client, requests, responses>>

RCNext ==
    \/ GetRemoteDigest /\ UNCHANGED offRC
    \/ \E response \in TokenResponses : TokenResponse(response) /\ UNCHANGED offRC
    \/ \E response \in ManifestResponses : ManifestResponse(response) /\ UNCHANGED offRC
    \/ TokenBody /\ UNCHANGED offRC
    \/ \E err \in NetworkErrors : FetchFails(err) /\ UNCHANGED offRC
    \/ Abort /\ UNCHANGED offRC

\* a client nobody calls
NoClient == RCInit({<<"n">>}, {undefinedStr})

\* a provider as notify() sees it: its name and what isEnabled() returns
Provider(name, enabled) == [name |-> name, enabled |-> enabled]

\* the one provider that init() registers, enabled
Registered == << Provider("discord-webhook", TRUE) >>

\* the providers of the notification manager's tests, the second one
\* enabled or not
ProviderLists ==
    { << Provider("provider1", TRUE), Provider("provider2", e) >> : e \in BOOLEAN }

Unhanded == [c \in CIds |-> [d \in Digests |-> "never"]]

\* no invocation of the job's action in progress
JobIdle(undelivered) ==
    [pc |-> "idle", newUpdates |-> << >>, notified |-> FALSE, i |-> 0, results |-> << >>,
     sends |-> 0, undelivered |-> undelivered]

NotifyInit(ps) ==
    /\ providers \in ps
    /\ checkJob = JobIdle({})
    /\ handed = Unhanded

DefaultConfig == [containers |-> Star, excludeContainers |-> << >>]

Init == SchedInit /\ UCInit({DefaultConfig}) /\ ParseInit({<<"n">>}) /\ NoClient /\ InitP /\ snapshot = NoSnapshot /\ NotifyInit({Registered})

\* calls of the image parser
ParseInitAny == SchedInit /\ UCInit({DefaultConfig}) /\ ParseInit(Inputs) /\ NoClient /\ InitP /\ snapshot = NoSnapshot /\ NotifyInit({Registered})

ParseSpec == ParseInitAny /\ [][ParseNext]_vars

Next == SchedNext(Names, LateDelays)

Spec == Init /\ [][Next]_vars

\* shutdown() against the clock: one job, the poll timer on time or late
TimedNext == SchedNext({"b"}, Delays)

TimedSpec == Init /\ [][TimedNext]_vars

\* one job whose timer keeps firing and whose awaited invocations all settle
FairTimerSpec ==
    /\ TimedSpec
    /\ WF_vars((\E out \in Outcomes : Tick("b", out)) /\ UNCHANGED offSched)
    /\ WF_vars((\E by \in Wrappers, out \in Settlements : Settle("b", by, out))
               /\ UNCHANGED offSched)

TypeOK ==
    /\ isShuttingDown \in BOOLEAN
    /\ \A n \in RegisteredNames : jobs[n].runCount \in 0..MaxRuns

\* the timer of the poll of shutdown() fires: the event loop runs every due timer
TimedFairSpec ==
    TimedSpec /\ \A s \in SdCalls :
                    WF_vars((\E d \in Delays : ShutdownWake(s, d)) /\ UNCHANGED offSched)

\* shutdown() called by two termination handlers: one job, coarse timers
TwoCallersNext == SchedNextOf({"b"}, CoarseDelays, SdCalls)

TwoCallersSpec == Init /\ [][TwoCallersNext]_vars

TwoCallersFairSpec ==
    TwoCallersSpec /\ \A s \in SdCalls :
                         WF_vars((\E d \in CoarseDelays : ShutdownWake(s, d)) /\ UNCHANGED offSched)

\* the update checker, one call at a time
UCInitAny == SchedInit /\ UCInit(Configs) /\ ParseInit({<<"n">>}) /\ NoClient /\ InitP /\ snapshot = NoSnapshot /\ NotifyInit({Registered})

UCStep == UCNext({"k1"})

UCSpec == UCInitAny /\ [][UCStep]_vars

\* the update checker called by the scheduled job and by the /check-updates
\* command, the calls overlapping; one container is watched
OnlyW == [containers |-> Listing(<< <<"w">> >>), excludeContainers |-> << >>]

TwoCallsInit == SchedInit /\ UCInit({OnlyW}) /\ ParseInit({<<"n">>}) /\ NoClient /\ InitP /\ snapshot = NoSnapshot /\ NotifyInit({Registered})

TwoCallsStep == UCNextOf(CallIds, {"checkForNewUpdates"}, {Fleet[1].Image})

TwoCallsSpec == TwoCallsInit /\ [][TwoCallsStep]_vars

(***************************************************************************)
(* The two schedulers side by side: every call, timer firing and           *)
(* settlement reaches both, each runs its own shutdown timers.             *)
(***************************************************************************)

\* the events that reach both schedulers
Events == {"schedule", "tick", "cancel", "runNow", "settle", "settleOrphan", "shutdown"}

\* the shutdown() calls of the two are both waiting or both not: an event
\* comes when the timers and continuations due before it have run in both
SameStage == \A s \in SdCalls : (sd[s].pc = "sleeping") <=> (sdP[s].pc = "racing")

BothNextOf(N, D, S, O) ==
    \/ \E n \in N, r \in BOOLEAN, out \in O : \E a \in ArgsFor(n) :
          SameStage /\ Schedule(n, a, r, out) /\ ScheduleP(n, a, r, out) /\ UNCHANGED offBoth
    \/ \E n \in N, out \in O :
          SameStage /\ Tick(n, out) /\ TickP(n, out) /\ UNCHANGED offBoth
    \/ \E n \in N : SameStage /\ Cancel(n) /\ CancelP(n) /\ UNCHANGED offBoth
    \/ \E n \in N, out \in O :
          SameStage /\ RunNow(n, out) /\ RunNowP(n, out) /\ UNCHANGED offBoth
    \/ \E n \in N, by \in Wrappers, out \in Settlements :
          /\ SameStage /\ inflightP[n].by = by
          /\ Settle(n, by, out) /\ SettleP(n, out) /\ UNCHANGED offBoth
    \/ \E e \in BagToSet(orphans), f \in BagToSet(orphansP), out \in Settlements :
          /\ SameStage /\ e.name = f.name
          /\ SettleOrphan(e, f.by, out) /\ SettleOrphanP(f, out) /\ UNCHANGED offBoth
    \/ \E s \in S : SameStage /\ ShutdownCall(s) /\ ShutdownCallP(s) /\ UNCHANGED offBoth
    \/ \E s \in S, d \in D : ShutdownWake(s, d) /\ UNCHANGED <<guardVars, offBoth>>
    \/ \E s \in S : ShutdownResumeP(s) /\ UNCHANGED <<schedVars, offBoth>>
    \/ \E s \in S : ShutdownTimeoutP(s) /\ UNCHANGED <<schedVars, offBoth>>

\* one job name, one caller of shutdown()
BothNext == BothNextOf({"b"}, LateDelays, OneCaller, Outcomes)

BothSpec == Init /\ [][BothNext]_vars

\* the same with actions that are async functions
AsyncBothNext == BothNextOf({"b"}, LateDelays, OneCaller, {"pending"})

AsyncBothSpec == Init /\ [][AsyncBothNext]_vars

(***************************************************************************)
(* The check-updates job of the notifications module and the notification  *)
(* manager's notify().                                                     *)
(***************************************************************************)

\* notify(): `if (!updates || updates.length === 0) return`
NotifySkips(updates) == updates = << >>

\* the job's action: `if (newUpdates.length > 0)`
HasNew(newUpdates) == Len(newUpdates) > 0

Handed_AllUpdates(call) == call.updates

\* what the job's action hands to notify(): what checkForNewUpdates() resolved with
Handed(call) == call.value

\* notify() after provider i: the next provider, or its return and with it
\* the action's
AfterProvider(job) ==
    IF job.i < Len(providers) THEN [job EXCEPT !.i = @ + 1]
    ELSE [job EXCEPT !.pc = "idle"]

\* a registry publishes the digest d under the reference r
PublishSeen(r, d) ==
    /\ Publish(r, d)
    /\ handed' = [c \in CIds |-> IF c \in Running(r) THEN Unhanded[c] ELSE handed[c]]
    /\ UNCHANGED <<providers, checkJob>>

\* the timer of the check-updates job fires, or schedule() runs it at once:
\* runJob's guard passes when no invocation is in flight, and the action
\* calls checkForNewUpdates()
JobTick(k) ==
    /\ checkJob.pc = "idle"
    /\ Call(k, "checkForNewUpdates")
    /\ checkJob' = [JobIdle(checkJob.undelivered) EXCEPT !.pc = "checking"]
    /\ UNCHANGED <<providers, handed>>

\* checkForNewUpdates() settled and the action resumes: a rejection ends it
\* (runJob catches), no new updates end it, new updates go to notify()
JobResumes(k) ==
    /\ checkJob.pc = "checking"
    /\ calls[k].pc = "done"
    /\ LET newUpdates == Handed(calls[k])
           given == calls[k].status = "resolved" /\ HasNew(newUpdates)
           begun == [checkJob EXCEPT !.newUpdates = IF calls[k].status = "resolved"
                                                    THEN newUpdates ELSE << >>,
                                     !.notified = given]
       IN  /\ checkJob' = IF given /\ ~NotifySkips(newUpdates) /\ Len(providers) > 0
                           THEN [begun EXCEPT !.pc = "notifying", !.i = 1]
                           ELSE [begun EXCEPT !.pc = "idle"]
           /\ handed' = [c \in CIds |->
                            IF given /\ c \in Ids(newUpdates)
                            THEN [handed[c] EXCEPT ![DigestIn(newUpdates, c)] =
                                     IF @ = "never" THEN "once" ELSE "again"]
                            ELSE handed[c]]
    /\ UNCHANGED <<ucVars, providers>>

\* the loop of notify() at provider i: a disabled one is passed over, an
\* enabled one is sent the updates and its promise settles
Delivery(ok) ==
    /\ checkJob.pc = "notifying"
    /\ LET provider == providers[checkJob.i]
           sent == [checkJob EXCEPT
                      !.sends = @ + 1,
                      !.results = Append(@, [provider |-> provider.name, success |-> ok]),
                      !.undelivered = IF ok THEN @ ELSE @ \cup Ids(checkJob.newUpdates)]
       IN  checkJob' = AfterProvider(IF provider.enabled THEN sent ELSE checkJob)
    /\ UNCHANGED <<ucVars, providers, handed>>

\* the job on the call k of the update checker, the calls B of the bot's
\* /check-updates command, pushes of the digests D under the references T,
\* the outcomes I of the checks and O of the deliveries
CheckJobNextOf(k, B, T, D, I, O) ==
    \/ \E r \in T : \E d \in Pushed(r) \cap D : PublishSeen(r, d) /\ UNCHANGED offNotify
    \/ JobTick(k) /\ UNCHANGED offNotify
    \/ \E b \in B : Call(b, "checkForNewUpdates") /\ UNCHANGED <<offNotify, notifyVars>>
    \/ \E c \in {k} \cup B, ok \in BOOLEAN : Listed(c, ok, {}) /\ UNCHANGED <<offNotify, notifyVars>>
    \/ \E c \in {k} \cup B, io \in I : CheckStep(c, io) /\ UNCHANGED <<offNotify, notifyVars>>
    \/ \E c \in {k} \cup B : Dedup(c) /\ UNCHANGED <<offNotify, notifyVars>>
    \/ JobResumes(k) /\ UNCHANGED offNotify
    \/ \E ok \in O : Delivery(ok) /\ UNCHANGED offNotify

JobInit == SchedInit /\ UCInit({OnlyW}) /\ ParseInit({<<"n">>}) /\ NoClient /\ InitP
           /\ snapshot = NoSnapshot /\ NotifyInit(ProviderLists)

JobAndBotInit == SchedInit /\ UCInit({OnlyW}) /\ ParseInit({<<"n">>}) /\ NoClient /\ InitP
                 /\ snapshot = NoSnapshot /\ NotifyInit({Registered})

\* the job as the only caller of checkForNewUpdates()
JobAloneStep == CheckJobNextOf("k1", {}, {Fleet[1].Image}, Digests, IOs, BOOLEAN)

JobAloneSpec == JobInit /\ [][JobAloneStep]_vars

\* the job and the /check-updates command of the Discord bot, both on the one
\* update checker
JobAndBotStep == CheckJobNextOf("k1", {"k2"}, {Fleet[1].Image}, {D1, D2}, {"ok"}, {TRUE})

JobAndBotSpec == JobAndBotInit /\ [][JobAndBotStep]_vars

\* checkForNewUpdates() under every configuration, with the first container
\* of Fleet removed and created again between calls
ListingStep == UCNextWith({"k1"}, {"checkForNewUpdates"}, Tracked, {{}, {Fleet[1].Id}})

ListingSpec == UCInitAny /\ [][ListingStep]_vars

\* the update checker with a caller that reads and changes the history it
\* got; images are pushed under one reference
HistoryStep ==
    \/ UCNextOf({"k1"}, Methods, {Fleet[1].Image})
    \/ CallerNext({Fleet[1].Id}, {undefinedStr, D2})

HistorySpec == Init /\ [][HistoryStep]_vars

\* the registry client: one call of getRemoteDigest per client
RCInitAny ==
    SchedInit /\ UCInit({DefaultConfig}) /\ ParseInit({<<"n">>}) /\ RCInit(ClientRefs, GhcrTokens)
    /\ InitP /\ snapshot = NoSnapshot /\ NotifyInit({Registered})

RCSpec == RCInitAny /\ [][RCNext]_vars

\* the event loop runs the timer of fetchWithTimeout when it is due; no
\* server is bound to answer
RCFairSpec == RCSpec /\ WF_vars(Abort /\ UNCHANGED offRC)

\* the scheduler with the promise guard, one caller of shutdown()
NextP == NextOfP(Names, OneCaller)

SpecP == Init /\ [][NextP]_vars

\* the same with actions that are async functions: a call always returns a promise
AsyncNextP == NextWithP(Names, OneCaller, {"pending"})

AsyncSpecP == Init /\ [][AsyncNextP]_vars

(***************************************************************************)
(* Properties of the scheduler.                                            *)
(***************************************************************************)
InFlight(n) == inflight[n].runJob + inflight[n].runNow

\* fn() was called by runJob in the handler that ran last
RunJobCalled(l) == l.op \in {"tick", "tickOrphan", "schedule"} /\ l.by = "runJob"

SchedUnchanged == UNCHANGED <<jobs, inflight, orphans, isShuttingDown, sd>>

\* C1: every job object, in the job table or out of it, has at most one
\* invocation of its action awaited at any time, whatever the interleaving
\* of ticks, the runImmediately trigger and runNow calls.
C1_AtMostOneInFlight ==
    /\ \A n \in Names : InFlight(n) <= 1
    /\ \A e \in BagToSet(orphans) : e.runJob + e.runNow <= 1

\* A tick of job n was skipped while its invocation is awaited, and another
\* job is running at the same time, started by runNow.
C1_Witness ==
    \E n, m \in Names :
        /\ n # m
        /\ last = Last("tick", n, "none", Void)
        /\ inflight[n].runJob = 1 /\ jobs[n].intervalId
        /\ inflight[m].runNow = 1

C7_NoRunJobAfterShutdown ==
    [][isShuttingDown => isShuttingDown' /\ ~RunJobCalled(last')]_vars

\* a tick of a job that is not running (scheduled after shutdown()) was skipped
C7_Witness ==
    /\ isShuttingDown
    /\ last.op = "tick" /\ last.by = "none"
    /\ Has(jobs, last.name) /\ ~jobs[last.name].isRunning

\* C8: schedule() of a name that has an entry throws DuplicateJob and
\* changes nothing: no timer is set, the entry keeps its action, interval
\* and counters, no action is called.
C8_DuplicateJob ==
    [][\A n \in Names :
         last'.op = "schedule" /\ last'.name = n /\ jobs[n] # NoJob
         => last'.res = "DuplicateJob" /\ last'.by = "none" /\ SchedUnchanged]_vars

C8_Witness ==
    /\ last.op = "schedule" /\ last.res = "DuplicateJob"
    /\ jobs[last.name].runCount > 0 /\ jobs[last.name].intervalId

\* C9: runNow(name) while an invocation of the job is awaited throws
\* JobAlreadyRunning and calls nothing; with none awaited it calls the
\* action, and when that invocation resolves runCount is one more.
C9_RunNowWhileRunning ==
    [][\A n \in Names :
         /\ last'.op = "runNow" /\ last'.name = n /\ jobs[n] # NoJob /\ InFlight(n) > 0
            => last'.res = "JobAlreadyRunning" /\ last'.by = "none" /\ SchedUnchanged
         /\ last'.op = "runNow" /\ last'.name = n /\ jobs[n] # NoJob /\ InFlight(n) = 0
            => last'.by = "runNow" /\ last'.res \in {"pending"} \cup {Rejected(e) : e \in Errors}
         /\ last' = Last("settle", n, "runNow", "resolved")
            => jobs'[n].runCount = jobs[n].runCount + 1]_vars

\* runNow was refused while a second runNow of the job, started after a
\* successful run, is awaited
C9_Witness ==
    \E n \in Names :
        /\ last = Last("runNow", n, "none", "JobAlreadyRunning")
        /\ inflight[n].runNow = 1 /\ jobs[n].runCount >= 1

\* C10: runNow(name) without an entry throws JobNotFound; a failure of the
\* action it runs is stored in lastError and rethrown to the caller of
\* runNow, while the same failure under runJob is not passed on.
C10_RunNowErrors ==
    [][\A n \in Names :
         /\ last'.op = "runNow" /\ last'.name = n /\ jobs[n] = NoJob
            => last'.res = "JobNotFound" /\ last'.by = "none" /\ SchedUnchanged
         /\ \A e \in Errors :
              /\ Settle(n, "runNow", e) \/ (RunNow(n, e) /\ last'.by = "runNow")
                 => jobs'[n].lastError = e /\ last'.res = Rejected(e)
              /\ Settle(n, "runJob", e) \/ (Tick(n, e) /\ last'.by = "runJob")
                 => jobs'[n].lastError = e /\ last'.res = Void]_vars

\* a rejection of the action came back to the caller of runNow
C10_Witness ==
    \E n \in Names, e \in Errors :
        /\ last = Last("settle", n, "runNow", Rejected(e))
        /\ jobs[n].lastError = e

\* C11: when an action started by a tick fails, at once or after its
\* await, the failure is stored in lastError and nothing is thrown out of
\* the timer callback; the timer stays as it was, the job is no longer
\* marked running, and unless shutdown() was called the next tick calls
\* the action again.
C11_TickFailureRecorded ==
    [][\A n \in Names, e \in Errors :
          Settle(n, "runJob", e) \/ (Tick(n, e) /\ last'.by = "runJob") =>
             /\ jobs'[n].lastError = e
             /\ last'.res = Void
             /\ jobs'[n].intervalId = jobs[n].intervalId
             /\ ~jobs'[n].isRunning
             /\ RunJobSkips(isShuttingDown', jobs'[n]) = isShuttingDown']_vars

\* a tick called the action of a job whose last invocation failed
C11_Witness ==
    \E n \in Names, e \in Errors :
        /\ last = Last("tick", n, "runJob", Void)
        /\ jobs[n].lastError = e /\ jobs[n].lastRun = NULL
        /\ jobs[n].isRunning /\ inflight[n].runJob = 1

\* C12: cancel(name) throws nothing; for a name without an entry it
\* changes nothing; for a name with an entry the entry is gone, so
\* getJobStatus(name) is null and schedule(name) is not a duplicate, and the
\* object leaves with its timer cleared, so no tick calls its action again.
C12_CancelDeregisters ==
    [][\A n \in Names :
          Cancel(n) =>
             /\ last'.res = Void
             /\ jobs[n] = NoJob => SchedUnchanged
             /\ jobs'[n] = NoJob /\ getJobStatus(n)' = NULL /\ ~Has(jobs', n)
             /\ \A e \in BagToSet(orphans') :
                   e.intervalId => CopiesIn(e, orphans') = CopiesIn(e, orphans)]_vars

\* a job cancelled while its action was awaited was scheduled again under
\* the same name; the old invocation is still awaited
C12_Witness ==
    \E n \in Names :
        /\ ~isShuttingDown
        /\ last.op = "schedule" /\ last.name = n /\ last.res = "job"
        /\ \E e \in BagToSet(orphans) : e.name = n /\ ~e.intervalId /\ e.runJob + e.runNow = 1

(***************************************************************************)
(* Properties of the update checker.                                       *)
(***************************************************************************)
NewCallDone(k) ==
    /\ calls[k].pc = "done"
    /\ calls[k].method = "checkForNewUpdates"
    /\ calls[k].status = "resolved"

\* C2: with no clear in between, when two consecutive checkForNewUpdates()
\* calls observe the same remote digest for a container that has an update,
\* the container has been returned for that digest (by the first call to
\* observe an update for a container, at the latest) and the second call
\* does not return it.
C2_SecondCallDeduplicated ==
    [][\A k \in CallIds, c \in CIds :
          LET d == DigestIn(calls[k].updates, c)
          IN  Dedup(k) /\ d # undefinedStr =>
                /\ reported[c] = undefinedStr => c \in Ids(calls'[k].value)
                /\ prevObs[c] = d => reported[c] = d /\ c \notin Ids(calls'[k].value)]_vars

C2_Witness ==
    \E k \in CallIds, c \in CIds :
        /\ NewCallDone(k)
        /\ c \in Ids(calls[k].updates)
        /\ calls[k].prior.obs[c] = DigestIn(calls[k].updates, c)
        /\ calls[k].prior.reported[c] = DigestIn(calls[k].updates, c)
        /\ c \notin Ids(calls[k].value)

\* C3: after a container has been reported for remote digest d1, a later
\* call that observes a different remote digest d2 (still different from the
\* local digest) returns that container again, and afterwards the history
\* holds d2 for it.
C3_ChangedDigestResurfaces ==
    [][\A k \in CallIds, c \in CIds :
          LET d2 == DigestIn(calls[k].updates, c)
          IN  Dedup(k) /\ d2 # undefinedStr /\ reported[c] \notin {undefinedStr, d2} =>
                /\ c \in Ids(calls'[k].value)
                /\ DigestIn(calls'[k].value, c) = d2
                /\ lastNotifiedDigests'[c] = d2]_vars

C3_Witness ==
    \E k \in CallIds, c \in CIds :
        /\ NewCallDone(k)
        /\ calls[k].prior.era = "used"
        /\ calls[k].prior.reported[c] = D1
        /\ c \in Ids(calls[k].value)
        /\ DigestIn(calls[k].value, c) = D2
        /\ lastNotifiedDigests[c] = D2

\* C4: clearNotificationHistory() empties the history, so the next
\* checkForNewUpdates() returns every container that currently has an
\* update, including ones already reported for the same digest.
C4_ClearResurfacesAll ==
    [][/\ Clear => \A c \in CIds : lastNotifiedDigests'[c] = undefinedStr
       /\ \A k \in CallIds :
            Dedup(k) /\ era = "cleared" => calls'[k].value = calls[k].updates]_vars

C4_Witness ==
    \E k \in CallIds, c \in CIds :
        /\ NewCallDone(k)
        /\ calls[k].prior.era = "cleared"
        /\ c \in Ids(calls[k].value)
        /\ calls[k].prior.reported[c] = DigestIn(calls[k].value, c)

\* what checkForUpdates collects from the same observations when no check fails
RECURSIVE Unfailing(_, _, _)
Unfailing(containers, seen, cfg) ==
    IF containers = << >> THEN << >>
    ELSE LET r == Iteration(Head(containers), "ok", seen[Head(containers).Id], cfg)
         IN  (IF r.kind = "info" /\ r.info.hasUpdate THEN <<r.info>> ELSE << >>)
                \o Unfailing(Tail(containers), seen, cfg)

\* C5: in checkForUpdates(), a failure while parsing, inspecting or fetching
\* for one container never aborts the batch: the call completes, the failing
\* container is absent from the result, and every other container is
\* evaluated and returned exactly as it would be without the failure.
C5_FailureDoesNotAbort ==
    \A k \in CallIds :
        LET call == calls[k]
            others == SelectSeq(Unfailing(Fleet, call.seen, config),
                                LAMBDA u : u.containerId \notin call.failed)
        IN  /\ call.status = "rejected" => call.failed = {}
            /\ call.pc \in {"dedup", "done"} /\ call.status # "rejected" =>
                  call.updates = others
            /\ call.pc = "done" /\ call.method = "checkForUpdates"
                  /\ call.status = "resolved" => call.value = others

C5_Witness ==
    \E k \in CallIds :
        /\ calls[k].pc = "done"
        /\ calls[k].method = "checkForUpdates"
        /\ calls[k].status = "resolved"
        /\ calls[k].failed = {"c1", "c5"}
        /\ Ids(calls[k].value) = {"c2"}

\* the containers of the list a call has been through
Passed(call) == {c \in CIds : call.reached[c] # "none"}

Finished(call) == call.pc \in {"dedup", "done"} /\ call.status # "rejected"

\* the filter as configured: not excluded, and either everything is
\* included ('*' or no include list) or the name is in the include list
Admitted(name, cfg) ==
    /\ ~arrayIncludes(cfg.excludeContainers, name)
    /\ \/ cfg.containers.star \/ ~cfg.containers.set
       \/ arrayIncludes(cfg.containers.list, name)

\* C13: checkForUpdates() evaluates a listed container exactly when its
\* name is not excluded and either all containers are included or its name
\* is in the include list; an excluded name is never evaluated and never in
\* the result, also when it is included.
C13_FilterDecidesEvaluation ==
    \A k \in CallIds :
        LET call == calls[k]
        IN  /\ call.pc = "checking" => \A j \in 1..(call.i - 1) : Fleet[j].Id \in Passed(call)
            /\ Finished(call) => Passed(call) = CIds
            /\ \A j \in 1..Len(Fleet) :
                  Fleet[j].Id \in Passed(call) =>
                     /\ call.reached[Fleet[j].Id] # "skipped"
                           <=> Admitted(ContainerName(Fleet[j]), config)
                     /\ arrayIncludes(config.excludeContainers, ContainerName(Fleet[j]))
                           => /\ call.reached[Fleet[j].Id] = "skipped"
                              /\ Fleet[j].Id \notin Ids(call.updates) \cup Ids(call.value)

\* with an include list that names v and an exclude list that names v too,
\* w was checked and returned, v and the unlisted p were passed over
C13_Witness ==
    \E k \in CallIds :
        /\ calls[k].pc = "done" /\ calls[k].status = "resolved"
        /\ config.containers.set /\ ~config.containers.star
        /\ arrayIncludes(config.containers.list, <<"v">>)
        /\ arrayIncludes(config.excludeContainers, <<"v">>)
        /\ calls[k].reached["c1"] = "fetched" /\ "c1" \in Ids(calls[k].value)
        /\ calls[k].reached["c2"] = "skipped"
        /\ calls[k].reached["c3"] = "skipped"

\* the raw image reference is a bare content digest
BareDigest(ref) == Len(ref) >= Len(sha256_) /\ SubSeq(ref, 1, Len(sha256_)) = sha256_

\* C14: for a container whose raw image reference is a bare content digest,
\* checkForUpdates() calls neither inspect() of the local image nor the
\* registry client, and the container is never in the result.
C14_BareDigestNeverFetched ==
    \A k \in CallIds : \A j \in 1..Len(Fleet) :
        BareDigest(Fleet[j].Image) =>
           /\ calls[k].reached[Fleet[j].Id] \in {"none", "skipped", "evaluated"}
           /\ Fleet[j].Id \notin Ids(calls[k].updates) \cup Ids(calls[k].value)

\* a call went through the whole list, evaluated the pinned container and
\* stopped there, while it fetched for the tagged one
C14_Witness ==
    \E k \in CallIds : \E j \in 1..Len(Fleet) :
        /\ BareDigest(Fleet[j].Image)
        /\ calls[k].pc = "done" /\ calls[k].status = "resolved"
        /\ calls[k].reached[Fleet[j].Id] = "evaluated"
        /\ calls[k].reached["c1"] = "fetched"

Records(call) ==
    {call.updates[i] : i \in 1..Len(call.updates)} \cup {call.value[i] : i \in 1..Len(call.value)}

\* C15: every record checkForUpdates() collects or returns has hasUpdate
\* true and a local digest different from its remote digest; a container
\* for which the same digest was fetched as it has locally is not returned.
C15_OnlyUpdatesReturned ==
    \A k \in CallIds :
        /\ \A u \in Records(calls[k]) : u.hasUpdate /\ u.localDigest # u.remoteDigest
        /\ \A j \in 1..Len(Fleet) :
              /\ calls[k].reached[Fleet[j].Id] = "fetched"
              /\ calls[k].seen[Fleet[j].Id] = getLocalDigest(ImageInspect(Fleet[j].ImageID))
              => Fleet[j].Id \notin Ids(calls[k].updates) \cup Ids(calls[k].value)

\* checkForUpdates() returned w, whose remote digest differs, and not v,
\* for which the registry answered with the local digest
C15_Witness ==
    \E k \in CallIds :
        /\ calls[k].pc = "done" /\ calls[k].status = "resolved"
        /\ calls[k].method = "checkForUpdates"
        /\ Ids(calls[k].value) = {"c1"}
        /\ calls[k].reached["c2"] = "fetched" /\ "c2" \notin calls[k].failed
        /\ calls[k].seen["c2"] = D0

(***************************************************************************)
(* Properties of the image parser.                                         *)
(***************************************************************************)
\* a string that has no digest part
NoDigest(x) == IsString(x) /\ ~includes(x, "@")

SameReference(p, q) ==
    /\ p.registry = q.registry /\ p.repository = q.repository
    /\ p.tag = q.tag /\ p.digest = q.digest

\* C16: for every string x without a digest part on which
\* parseImageReference succeeds, parsing the toString() of the result
\* succeeds and gives the same registry, repository, tag and digest.
C16_RoundTrip ==
    NoDigest(input) /\ again # NotCalled =>
        again.error = NULL /\ SameReference(again, result)

\* docker.io/n:t comes back as registry-1.docker.io/library/n:t, which
\* parses to the same reference
C16_Witness ==
    /\ input = docker_io \o <<"/","n",":","t">>
    /\ again # NotCalled /\ SameReference(again, result)
    /\ toString(result) = DEFAULT_REGISTRY \o <<"/">> \o library_ \o <<"n",":","t">>

\* the position of the last ':' and of the first '/' of the trimmed input
LastColon == lastIndexOf(trim(input), ":")
FirstSlash == indexOf(trim(input), "/")
SlashAfterLastColon == includes(substringFrom(trim(input), LastColon + 1), "/")

SingleSegment(x) ==
    /\ IsString(x) /\ x # << >>
    /\ \A i \in 1..Len(x) : x[i] \notin {"/", ":", "@", " "}

\* C18: a successful parse never returns the alias docker.io as registry;
\* when the registry is the default one the repository has a namespace;
\* a name n of one segment, alone or after docker.io/, is returned as
\* library/n under the default registry.
C18_DefaultRegistryCanonical ==
    result.error = NULL =>
        /\ result.registry # docker_io
        /\ result.registry = DEFAULT_REGISTRY => includes(result.repository, "/")
        /\ \A n \in {input, substringFrom(input, Len(docker_io) + 1)} :
              /\ SingleSegment(n)
              /\ input \in {n, docker_io \o <<"/">> \o n}
              => /\ result.registry = DEFAULT_REGISTRY
                 /\ result.repository = library_ \o n

\* docker.io/n is returned under the canonical host as library/n
C18_Witness ==
    /\ input = docker_io \o <<"/","n">>
    /\ result.error = NULL
    /\ result.registry = DEFAULT_REGISTRY
    /\ result.repository = library_ \o <<"n">>

\* C19: parseImageReference throws 'Invalid image reference' and returns
\* no parsed reference whenever its argument is the empty string, null,
\* undefined or not a string.
C19_InvalidReference ==
    input \in {<< >>} \cup NonStrings /\ result # NotCalled =>
        result = InvalidReference /\ again = NotCalled

\* the parser was called with a number and threw
C19_Witness ==
    /\ input = aNumber
    /\ result.error = "Invalid image reference"

(***************************************************************************)
(* Properties of the registry client.                                      *)
(***************************************************************************)
\* the call went to getGHCRDigest
GhcrFlow == digestCall # Created /\ isGHCR(client.imageRef) /\ ~isDockerHub(client.imageRef)

\* options.ghcrToken holds a token
TokenSupplied == Truthy(client.ghcrToken)

\* the failure that tells the user to set GHCR_TOKEN, naming repository and tag
AuthenticationRequired(promise) ==
    /\ promise.state = "rejected"
    /\ promise.error.name = "Error"
    /\ promise.error.message.text
          = "GHCR requires authentication for ${repository}:${tag}. Set GHCR_TOKEN environment variable."
    /\ promise.error.message.repository = client.imageRef.repository
    /\ promise.error.message.tag = client.imageRef.tag

\* the failure of a manifest request, naming registry, repository and tag
RegistryFetchFailure(promise) ==
    /\ promise.state = "rejected"
    /\ promise.error.name = "Error"
    /\ promise.error.message.text
          \in {"Failed to get manifest for ${where}${repository}:${tag}: ${status}",
               "No digest returned for ${where}${repository}:${tag}"}
    /\ promise.error.message.where = ghcr_io \o <<"/">>
    /\ promise.error.message.repository = client.imageRef.repository
    /\ promise.error.message.tag = client.imageRef.tag

\* the response is not a success with a digest
NonSuccess(response) == ~Ok(response) \/ ~Truthy(response.digest)

\* C20: in the ghcr.io flow the manifest request carries an Authorization
\* header exactly when a token was supplied, and then "Bearer <token>"; a 401
\* response with no token supplied rejects with AuthenticationRequired;
\* every other response that is not a success with a digest rejects with a
\* RegistryFetchFailure, which is never an AuthenticationRequired; and a
\* fetch that rejects leaves its own error, no AuthenticationRequired either.
C20_GhcrAuthentication ==
    GhcrFlow =>
        /\ Len(requests) = 1
        /\ requests[1].authorization # undefinedStr <=> TokenSupplied
        /\ TokenSupplied => requests[1].authorization = Bearer(client.ghcrToken)
        /\ \A i \in 1..Len(responses) :
              /\ responses[i].status = 401 /\ ~TokenSupplied
                    => AuthenticationRequired(digestCall.promise)
              /\ NonSuccess(responses[i]) /\ ~(responses[i].status = 401 /\ ~TokenSupplied)
                    => /\ RegistryFetchFailure(digestCall.promise)
                       /\ ~AuthenticationRequired(digestCall.promise)
              /\ ~NonSuccess(responses[i]) => digestCall.promise.state = "fulfilled"
        /\ digestCall.pc = "done" /\ responses = << >>
              => /\ digestCall.promise.state = "rejected"
                 /\ digestCall.promise.error \in FetchErrors
                 /\ ~AuthenticationRequired(digestCall.promise)

\* ghcr.io answered 401 to a request without a token
C20_Witness ==
    /\ GhcrFlow /\ ~TokenSupplied
    /\ requests[1].authorization = undefinedStr
    /\ Len(responses) = 1 /\ responses[1].status = 401
    /\ AuthenticationRequired(digestCall.promise)

\* ghcr.io answered 401 to a request that carried a token
C20_WitnessToken ==
    /\ GhcrFlow /\ TokenSupplied
    /\ Len(responses) = 1 /\ responses[1].status = 401
    /\ RegistryFetchFailure(digestCall.promise)

\* C21: every call of getRemoteDigest completes, with a digest or a failure,
\* whatever the token endpoint and the registry do or fail to do.
C21_GetRemoteDigestCompletes == (digestCall.pc # "created") ~> (digestCall.pc = "done")

(***************************************************************************)
(* Further properties of the scheduler.                                    *)
(***************************************************************************)
\* a call of shutdown() returned in the step
ShutdownReturned == last' # last /\ last'.op \in {"shutdown", "shutdownWake"} /\ last'.res = "returned"

\* C22: of the calls of shutdown(), one after another or overlapping, each
\* one returns (none throws: a call is pending or it returned), and when it
\* returns the job table is empty and getAllJobStatuses() has no entries.
C22_ShutdownRepeatable ==
    /\ [][/\ ShutdownReturned => jobs' = [n \in Names |-> NoJob] /\ getAllJobStatuses' = {}
          /\ last'.op \in {"shutdown", "shutdownWake"} => last'.res \in {"pending", "returned"}]_vars
    /\ \A s \in SdCalls : (sd[s].pc = "sleeping") ~> (sd[s].pc = "done")

\* a call of shutdown() returned from its loop while another is still in its loop
C22_Witness ==
    /\ last = Last("shutdownWake", NULL, "none", "returned")
    /\ jobs = [n \in Names |-> NoJob]
    /\ \E s, t \in SdCalls : sd[s].pc = "done" /\ sd[t].pc = "sleeping"

(***************************************************************************)
(* Further properties of the update checker.                               *)
(***************************************************************************)
\* C23: without clearNotificationHistory, no digest of a container is
\* returned by more than one call of checkForNewUpdates() for one push of
\* it, whatever the interleaving of the calls.
C23_OncePerChange == \A c \in CIds, d \in Digests : told[c][d] # "again"

\* C24: the history entry of a container changes only when a
\* checkForNewUpdates() that checked the container without failure returns
\* it; a call in which the check of the container failed, or which failed to
\* list the containers, leaves the entry as it was, present or absent.
C24_FailedCheckKeepsHistory ==
    [][/\ ~Clear =>
            \A c \in CIds :
               lastNotifiedDigests'[c] # lastNotifiedDigests[c] =>
                  \E k \in CallIds :
                     /\ calls[k].pc = "dedup" /\ calls'[k].pc = "done"
                     /\ calls'[k].status = "resolved"
                     /\ c \notin calls[k].failed
                     /\ c \in Ids(calls'[k].value)
       /\ \A k \in CallIds :
            calls'[k].status = "rejected" \/ calls'[k].pc \in {"listing", "checking"} =>
               lastNotifiedDigests' = lastNotifiedDigests \/ Clear]_vars

\* a checkForNewUpdates() returned one container while the check of another,
\* reported before, failed
C24_Witness ==
    \E k \in CallIds, c \in CIds :
        /\ NewCallDone(k)
        /\ c \in calls[k].failed
        /\ lastNotifiedDigests[c] \in Digests
        /\ calls[k].prior.reported[c] = lastNotifiedDigests[c]
        /\ calls[k].value # << >>

\* in the scheduler with the boolean flag, a registered job reports isRunning
\* only while a call of its action is awaited
FlagCleared ==
    \A n \in RegisteredNames :
        getJobStatus(n).isRunning => inflight[n].runJob + inflight[n].runNow > 0

\* a tick whose call of the action threw, the flag clear after it
FlagClearedAfterThrow ==
    /\ last.op = "tick" /\ last.by = "runJob"
    /\ jobs[last.name] # NoJob /\ jobs[last.name].lastError \in Errors
    /\ inflight[last.name] = None /\ ~jobs[last.name].isRunning

\* the same in the scheduler with the promise guard
GuardCleared ==
    \A n \in RegisteredNamesP :
        getJobStatusP(n).isRunning => inflightP[n].by # "none"

\* C25: in either scheduler, a registered job reports isRunning only while a
\* call of its action is awaited: once the invocation has ended (resolved,
\* rejected, or thrown before it returned a promise; started by a tick, by
\* runImmediately or by runNow) the indicator is clear and the next tick or
\* runNow starts the action.
C25_IndicatorCleared == FlagCleared /\ GuardCleared

\* C26: a tick of a job whose invocation is still awaited returns at once:
\* nothing of the scheduler changes and no action is called.  Nothing is
\* queued: when the awaited invocation settles, the job is left with no
\* invocation, and a new one starts only in a later tick, runNow or
\* schedule() of the name.
C26_OverlappingTickDropped ==
    [][\A n \in Names :
          /\ last'.op = "tick" /\ last'.name = n /\ InFlight(n) > 0
             => last' = Last("tick", n, "none", Void) /\ SchedUnchanged
          /\ last'.op = "settle" /\ last'.name = n
             => InFlight(n)' = InFlight(n) - 1 /\ (InFlight(n)' = 0 => ~jobs'[n].isRunning)
          /\ InFlight(n)' > InFlight(n)
             => last'.name = n /\ last'.op \in {"tick", "runNow", "schedule"}]_vars

\* a tick was dropped while an invocation started by runNow, after a
\* successful run, is awaited
C26_Witness ==
    \E n \in Names :
        /\ ~isShuttingDown
        /\ last = Last("tick", n, "none", Void)
        /\ inflight[n].runNow = 1 /\ jobs[n].isRunning /\ jobs[n].runCount = 1

\* the invocations awaited on the objects of B
AwaitedOn(B) ==
    LET RECURSIVE Sum(_)
        Sum(S) == IF S = {} THEN 0
                  ELSE LET e == CHOOSE x \in S : TRUE
                       IN  CopiesIn(e, B) * (e.runJob + e.runNow) + Sum(S \ {e})
    IN  Sum(BagToSet(B))

\* the invocations awaited, on the entries of jobs and on the objects that left it
AllAwaited ==
    LET RECURSIVE Sum(_)
        Sum(S) == IF S = {} THEN 0
                  ELSE LET n == CHOOSE m \in S : TRUE IN InFlight(n) + Sum(S \ {n})
    IN  Sum(Names) + AwaitedOn(orphans)

\* C27: cancel(name) and shutdown() leave every awaited invocation awaited:
\* the object that leaves jobs keeps its awaited calls.  When such an
\* invocation settles, its wrapper ends as it would have (runNow hands the
\* result or the failure to its caller), the entries of jobs stay as they
\* are, and no action is called.
C27_NoInterruption ==
    [][/\ last'.op \in {"cancel", "shutdown", "shutdownWake"} => AllAwaited' = AllAwaited
       /\ \A n \in Names :
            last'.op = "cancel" /\ last'.name = n /\ InFlight(n) > 0 =>
               \E e \in BagToSet(orphans') :
                  /\ e.name = n /\ Awaited(e) = inflight[n] /\ e.isRunning
                  /\ CopiesIn(e, orphans') = CopiesIn(e, orphans) + 1
       /\ last'.op = "settleOrphan" =>
            /\ jobs' = jobs /\ inflight' = inflight
            /\ AllAwaited' = AllAwaited - 1
            /\ last'.res \in {Void, "resolved"} \cup {Rejected(e) : e \in Errors}]_vars

\* an invocation started by runNow, whose job was cancelled and scheduled
\* again while it was awaited, failed: the new entry has not run
C27_Witness ==
    \E n \in Names, e \in Errors :
        /\ last = Last("settleOrphan", n, "runNow", Rejected(e))
        /\ jobs[n] # NoJob /\ jobs[n].lastError = NULL /\ jobs[n].runCount = 0
        /\ InFlight(n) = 0

\* the call of the action of job n in this step threw e, or its awaited
\* promise rejected with e
FailedIn(n, e) ==
    \/ \E by \in Wrappers : Settle(n, by, e)
    \/ Tick(n, e) /\ last'.by = "runJob"
    \/ RunNow(n, e) /\ last'.by = "runNow"

\* C28: runCount of a registered job counts the invocations of its action
\* that resolved: it is 0 when schedule() returns, one more after every
\* invocation that resolves (which also sets lastRun and resets lastError),
\* and unchanged by every other step; an invocation that fails leaves
\* runCount and lastRun as they were and stores the failure in lastError.
C28_RunCountCountsSuccesses ==
    [][\A n \in Names :
          /\ last'.op = "schedule" /\ last'.name = n /\ last'.res = "job"
             => jobs'[n].runCount = 0 /\ jobs'[n].lastRun = NULL
          /\ jobs[n] # NoJob /\ jobs'[n] # NoJob =>
               /\ (\E by \in Wrappers : Settle(n, by, "ok"))
                  => /\ jobs'[n].runCount = jobs[n].runCount + 1
                     /\ jobs'[n].lastRun = "date" /\ jobs'[n].lastError = NULL
               /\ \A e \in Errors :
                     FailedIn(n, e)
                     => /\ jobs'[n].runCount = jobs[n].runCount
                        /\ jobs'[n].lastRun = jobs[n].lastRun
                        /\ jobs'[n].lastError = e
               /\ jobs'[n].runCount # jobs[n].runCount
                  => \E by \in Wrappers : Settle(n, by, "ok")]_vars

\* two invocations of one job resolved, and an invocation of another job
\* failed after one that resolved: its runCount stays 1
C28_Witness ==
    \E n \in Names :
        /\ last.op = "settle" /\ last.name = n
        /\ jobs[n].runCount = 2 /\ jobs[n].lastRun = "date" /\ jobs[n].lastError = NULL
        /\ \E m \in Names \ {n} : jobs[m] # NoJob /\ jobs[m].runCount = 1 /\ jobs[m].lastError \in Errors

\* schedule(n, ..., {runImmediately}) of a name without entry, in this step
Scheduling(n, runImmediately) ==
    /\ jobs[n] = NoJob
    /\ \E a \in ArgsFor(n), out \in Outcomes : Schedule(n, a, runImmediately, out)

\* the action of job n was called once in this step, by runJob: its promise
\* is awaited, or it threw and the failure is stored
ActionCalledOnce(n) ==
    /\ last'.by = "runJob"
    /\ \/ InFlight(n)' = 1 /\ jobs'[n].isRunning /\ jobs'[n].lastError = NULL
       \/ InFlight(n)' = 0 /\ ~jobs'[n].isRunning /\ jobs'[n].lastError \in Errors

NothingCalled(n) ==
    /\ last'.by = "none"
    /\ InFlight(n)' = 0 /\ ~jobs'[n].isRunning /\ jobs'[n].lastError = NULL

\* a tick that fires before the invocation started by schedule() has
\* settled is skipped
FirstTickSkipped(n) ==
    /\ last = Last("schedule", n, "runJob", "job") /\ InFlight(n) = 1
    /\ last'.op = "tick" /\ last'.name = n
    => last'.by = "none" /\ SchedUnchanged

\* C29 as stated: schedule() with runImmediately calls the action once
\* before it returns, and a tick that fires before that invocation has
\* settled is skipped; schedule() without the option calls nothing.
C29_RunImmediately ==
    [][\A n \in Names :
          /\ Scheduling(n, TRUE) => ActionCalledOnce(n)
          /\ Scheduling(n, FALSE) /\ ~Scheduling(n, TRUE) => NothingCalled(n)
          /\ FirstTickSkipped(n)]_vars

\* C29 amended: the same unless shutdown() has been called; after
\* shutdown() schedule() calls nothing, with or without the option.
C29_RunImmediatelyUnlessShutDown ==
    [][\A n \in Names :
          /\ Scheduling(n, TRUE) /\ ~isShuttingDown => ActionCalledOnce(n)
          /\ Scheduling(n, TRUE) /\ isShuttingDown => NothingCalled(n)
          /\ Scheduling(n, FALSE) /\ ~Scheduling(n, TRUE) => NothingCalled(n)
          /\ FirstTickSkipped(n)]_vars

\* schedule() with runImmediately has returned: the action was called once,
\* its promise is awaited and the timer is set
C29_Witness ==
    \E n \in Names :
        /\ ~isShuttingDown
        /\ last = Last("schedule", n, "runJob", "job")
        /\ inflight[n] = [runJob |-> 1, runNow |-> 0]
        /\ jobs[n].isRunning /\ jobs[n].intervalId /\ jobs[n].runCount = 0

\* C30: while an invocation of job m is awaited, a tick (shutdown() not
\* called) and a runNow of every other registered job n that has no
\* invocation awaited call the action of n, and leave the invocation of m
\* awaited: invocations of distinct jobs are in flight together.
C30_GuardPerJob ==
    [][\A n, m \in Names :
          n # m /\ InFlight(m) > 0 /\ jobs[n] # NoJob /\ InFlight(n) = 0 =>
             /\ last'.op = "tick" /\ last'.name = n /\ ~isShuttingDown
                => last'.by = "runJob" /\ inflight'[m] = inflight[m]
             /\ last'.op = "runNow" /\ last'.name = n
                => last'.by = "runNow" /\ inflight'[m] = inflight[m]]_vars

\* a tick started the action of one job while an invocation of the other,
\* started by a tick as well, is awaited
C30_Witness ==
    \E n, m \in Names :
        /\ n # m
        /\ last = Last("tick", n, "runJob", Void)
        /\ inflight[n] = [runJob |-> 1, runNow |-> 0]
        /\ inflight[m] = [runJob |-> 1, runNow |-> 0]
        /\ jobs[n].isRunning /\ jobs[m].isRunning

\* checkForNewUpdates() comes to its comparison in this step
NewUpdatesReturned ==
    \E k \in CallIds :
        /\ calls[k].method = "checkForNewUpdates"
        /\ calls[k].pc = "dedup" /\ calls'[k].pc = "done"

\* C31: the history of the engine changes only in the step in which a
\* checkForNewUpdates() compares and records, and in clearNotificationHistory():
\* every step of a checkForUpdates() call, getNotificationHistory(), and a
\* change the caller makes to the Map it got leave it as it was.
C31_HistoryFrame ==
    [][/\ lastNotifiedDigests' # lastNotifiedDigests
          => NewUpdatesReturned \/ (Clear /\ snapshot' = snapshot)
       /\ snapshot' # snapshot => lastNotifiedDigests' = lastNotifiedDigests
       /\ \A k \in CallIds :
            calls'[k] # calls[k] /\ calls'[k].method = "checkForUpdates"
            => lastNotifiedDigests' = lastNotifiedDigests]_vars

\* the caller deleted from its Map an entry the engine still holds, and a
\* checkForUpdates() has returned that container since
C31_Witness ==
    \E c \in CIds, k \in CallIds :
        /\ snapshot.taken /\ snapshot.map[c] = undefinedStr
        /\ lastNotifiedDigests[c] \in Digests
        /\ calls[k].pc = "done" /\ calls[k].method = "checkForUpdates"
        /\ c \in Ids(calls[k].value)

(***************************************************************************)
(* Further properties of the registry client.                              *)
(***************************************************************************)
DockerHubFlow == isDockerHub(client.imageRef)

\* the token request failed: a response that is not ok, a body that is not
\* JSON, or a fetch or a reading that rejected before a token was there
TokenRequestFailed ==
    \/ responses # << >> /\ (~Ok(responses[1]) \/ responses[1].token = NotJson)
    \/ digestCall.pc = "done" /\ Len(requests) = 1

\* C32: in the Docker Hub flow the first request is the token request and
\* the only other one is the manifest request; it is made after the token
\* response was read and carries 'Bearer ' and the token of that response;
\* when the token request fails no manifest request is made and
\* getRemoteDigest rejects.
C32_TokenThenManifest ==
    DockerHubFlow =>
       /\ requests # << >> => requests[1] = TokenRequest(client.imageRef.repository)
       /\ Len(requests) <= 2
       /\ Len(requests) = 2 =>
            /\ responses # << >> /\ Ok(responses[1])
            /\ requests[2].endpoint = "manifests"
            /\ requests[2].repository = client.imageRef.repository
            /\ requests[2].tag = client.imageRef.tag
            /\ requests[2].authorization = bearer_ \o responses[1].token
       /\ TokenRequestFailed =>
            /\ Len(requests) = 1
            /\ digestCall.pc = "done" => digestCall.promise.state = "rejected"

\* the Docker Hub flow returned a digest: both requests were made, the
\* second with the token of the first response
C32_Witness ==
    /\ DockerHubFlow
    /\ digestCall.pc = "done" /\ digestCall.promise = FulfilledWith(D1)
    /\ Len(requests) = 2 /\ Len(responses) = 2
    /\ requests[2].authorization = bearer_ \o <<"t">>

\* the token endpoint answered 404: one request, and the call rejected
C32_WitnessTokenFailure ==
    /\ DockerHubFlow
    /\ digestCall.pc = "done" /\ digestCall.promise.state = "rejected"
    /\ Len(requests) = 1 /\ Len(responses) = 1 /\ responses[1].status = 404

\* the manifest request has been answered
ManifestAnswered == Len(responses) = Len(requests) /\ requests # << >>
                    /\ requests[Len(requests)].endpoint = "manifests"

\* C33: in all three flows, a getRemoteDigest that resolves resolves with
\* the docker-content-digest header of a manifest response that is ok, and a
\* manifest response that is not ok, or is ok without the header (absent or
\* empty), makes it reject.
C33_DigestFromHeader ==
    digestCall.pc = "done" =>
       LET response == responses[Len(responses)] IN
       /\ digestCall.promise.state = "fulfilled" =>
             /\ ManifestAnswered
             /\ Ok(response) /\ response.digest \notin {nullStr, << >>}
             /\ digestCall.promise.value = response.digest
       /\ ManifestAnswered /\ (~Ok(response) \/ response.digest \in {nullStr, << >>})
          => digestCall.promise.state = "rejected"

\* a registry that is neither Docker Hub nor GHCR answered 200 with an empty
\* digest header, and the call rejected
C33_Witness ==
    /\ ~DockerHubFlow /\ ~isGHCR(client.imageRef)
    /\ digestCall.pc = "done" /\ digestCall.promise.state = "rejected"
    /\ ManifestAnswered
    /\ responses[1].status = 200 /\ responses[1].digest = << >>

\* the same registry answered 200 with the header, and the call returned it
C33_WitnessDigest ==
    /\ ~DockerHubFlow /\ ~isGHCR(client.imageRef)
    /\ digestCall = Done(FulfilledWith(D1))
    /\ responses = <<[status |-> 200, token |-> undefinedStr, digest |-> D1]>>

(***************************************************************************)
(* Further properties of the scheduler.                                    *)
(***************************************************************************)
\* C34: while an invocation of a job that was cancelled is still awaited,
\* no invocation of a job scheduled again under the same name with the same
\* action is awaited.
C34_SerializedPerName ==
    \A n \in Names : \A e \in BagToSet(orphans) :
        /\ jobs[n] # NoJob /\ e.name = n /\ e.fn = jobs[n].fn
        /\ e.runJob + e.runNow > 0
        => InFlight(n) = 0

\* shutdown() of the scheduler with the boolean flag throws nothing, and
\* when it has returned the job table is empty
ShutdownCompletes ==
    last.op \in {"shutdown", "shutdownWake"} =>
       /\ last.res \in {"pending", "returned"}
       /\ last.res = "returned" => RegisteredNames = {}

\* the same of the scheduler with the promise guard
ShutdownCompletesP ==
    lastP.op \in {"shutdown", "shutdownResume", "shutdownTimeout"} =>
       /\ lastP.res \in {"pending", "returned"}
       /\ lastP.res = "returned" => RegisteredNamesP = {}

\* C35: in either scheduler shutdown() never fails: every call of it ends by
\* returning, with the job table empty, also when an invocation that was
\* awaited when it was called fails while it waits.
C35_ShutdownNeverFails == ShutdownCompletes /\ ShutdownCompletesP

\* C36 as stated: once shutdown() was called no runNow calls an action.
C36_NoRunNowAfterShutdown ==
    isShuttingDown /\ last.op = "runNow" => last.by = "none"

\* C36 amended: once shutdown() was called, runNow does what it did before:
\* JobNotFound for a name without entry (every job there was, once shutdown()
\* has returned), JobAlreadyRunning while an invocation of the job is
\* awaited, and otherwise it calls the action: of a job that is idle while
\* shutdown() waits, and of a job scheduled after shutdown() was called.
C36_RunNowIgnoresShutdown ==
    [][/\ \A n \in Names :
            isShuttingDown /\ last'.op = "runNow" /\ last'.name = n =>
            /\ jobs[n] = NoJob => last'.res = "JobNotFound" /\ last'.by = "none"
            /\ jobs[n] # NoJob /\ InFlight(n) > 0
               => last'.res = "JobAlreadyRunning" /\ last'.by = "none"
            /\ jobs[n] # NoJob /\ InFlight(n) = 0
               => last'.by = "runNow" /\ InFlight(n)' + (IF last'.res = "pending" THEN 0 ELSE 1) = 1
       /\ last'.op \in {"shutdown", "shutdownWake"} /\ last'.res = "returned"
          => RegisteredNames' = {}]_vars

\* runNow called the action of a job while shutdown() was waiting for another
C36_Witness ==
    \E n \in Names, s \in SdCalls :
        /\ isShuttingDown /\ sd[s].pc = "sleeping"
        /\ last = Last("runNow", n, "runNow", "pending")
        /\ inflight[n].runNow = 1 /\ jobs[n].isRunning

\* the handler that ran last called the action of job n
JustCalled(n) ==
    last.name = n /\ last.by \in Wrappers /\ last.op \in {"tick", "runNow", "schedule"}

\* C37: with the timer firing and every awaited invocation settling, a
\* registered job that is idle, whatever came before (successes, failures,
\* skipped ticks, runNow calls), has its action called again, unless the job
\* is cancelled or shutdown() is called first (or the job has run MaxRuns
\* times, where the model stops counting).
C37_StartedAgain ==
    \A n \in {"b"} :
        (Has(jobs, n) /\ InFlight(n) = 0 /\ ~JustCalled(n))
        ~> (JustCalled(n) \/ ~Has(jobs, n) \/ isShuttingDown \/ jobs[n].runCount = MaxRuns)

\* a tick called the action of a job that has resolved once and failed since
C37_Witness ==
    /\ ~isShuttingDown
    /\ last = Last("tick", "b", "runJob", Void)
    /\ jobs["b"].runCount = 1 /\ jobs["b"].lastError \in Errors
    /\ inflight["b"].runJob = 1

\* C38: checkForNewUpdates() changes only the history entries of the
\* containers it returns, and sets each to the remote digest of the record it
\* returns; the entry of a container that is up to date, filtered out, failed
\* or no longer listed stays as it was, and every value the history holds
\* (clearNotificationHistory() leaves none) is the remote digest of the record
\* last returned for that container
C38_OnlyReturnedEntriesChange ==
    [][/\ \A k \in CallIds :
            calls[k].pc = "dedup" /\ calls'[k].pc = "done" =>
               \A c \in CIds :
                  lastNotifiedDigests'[c] =
                     IF c \in Ids(calls'[k].value)
                     THEN DigestIn(calls'[k].value, c)
                     ELSE lastNotifiedDigests[c]
       /\ \A c \in CIds :
            lastNotifiedDigests'[c] # undefinedStr => lastNotifiedDigests'[c] = reported'[c]]_vars

\* a checkForNewUpdates() returned the second container while the first, whose
\* update is in the history, was not listed
C38_Witness ==
    \E k \in CallIds :
       /\ NewCallDone(k)
       /\ calls[k].gone = {Fleet[1].Id}
       /\ lastNotifiedDigests[Fleet[1].Id] # undefinedStr
       /\ Fleet[2].Id \in Ids(calls[k].value)
       /\ lastNotifiedDigests[Fleet[2].Id] = DigestIn(calls[k].value, Fleet[2].Id)

\* the invocation of the check-updates job has gone past its call of
\* checkForNewUpdates(), which resolved
JobPastCheck ==
    /\ checkJob.pc \in {"notifying", "idle"}
    /\ calls["k1"].pc = "done" /\ calls["k1"].status = "resolved"

\* C39: in the check-updates job every update checkForNewUpdates() returns
\* is handed to notify() in the same invocation, none is handed to it again
\* on a later tick while its remote digest is unchanged, whether or not a
\* provider failed to deliver it, and an invocation without new updates
\* sends nothing
C39_HandedOncePerDigest ==
    /\ JobPastCheck =>
          /\ checkJob.newUpdates = calls["k1"].value
          /\ checkJob.notified = (calls["k1"].value # << >>)
          /\ checkJob.newUpdates = << >> => checkJob.sends = 0
    /\ \A c \in CIds, d \in Digests : handed[c][d] # "again"

\* the first invocation handed an update to notify() and a provider failed;
\* a later invocation, the remote digest unchanged, had nothing new and sent
\* nothing
C39_Witness ==
    /\ JobPastCheck /\ checkJob.pc = "idle"
    /\ checkJob.newUpdates = << >> /\ checkJob.sends = 0
    /\ Fleet[1].Id \in checkJob.undelivered
    /\ Fleet[1].Id \in Ids(calls["k1"].updates)
    /\ handed[Fleet[1].Id][DigestIn(calls["k1"].updates, Fleet[1].Id)] = "once"

\* an event has just reached both schedulers
BothAnswered == last.op \in Events /\ lastP.op = last.op

\* C40: the two schedulers are observationally equivalent: on the same
\* events they start the same invocations, return the same results or
\* errors, and report the same getJobStatus snapshots
C40_SchedulersEquivalent ==
    BothAnswered =>
       /\ last.by = lastP.by
       /\ last.res = lastP.res
       /\ \A n \in Names : getJobStatus(n) = getJobStatusP(n)

====
